---- MODULE Spec2Model ----
(***************************************************************************)
(* SimpleMediaServer: a self-hosted HTTP file-hosting service.             *)
(*                                                                         *)
(* The module holds these state machines over one set of variables:       *)
(*   SpecRL        modules/rate_limiter.py  RateLimiter.__call__           *)
(*   SpecUploadRL  the limiter of routes/upload.py and its two routes      *)
(*   SpecAuth      modules/functions.py     authorize_admin                *)
(*   Spec          routes/upload.py, routes/file.py, routes/delete.py and  *)
(*                 services/database.py: the file catalogue, the storage  *)
(*                 directory, the request handlers and the expiry tasks    *)
(*   SpecLive      the same with requests one at a time, under fairness    *)
(*   SpecCompress  routes/compression.py next to uploads and expiry        *)
(*   SpecMulti     routes/upload.py upload_multiple_files                  *)
(*   SpecErr       main.py exception handlers and the routes' errors       *)
(*   SpecDate      modules/functions.py fetch_date and its callers         *)
(*   SpecPool      services/database.py: the connection pool and the       *)
(*                 transactions of concurrent FilesTable calls             *)
(*   SpecPoolLive  the pool under concurrent get_file calls, with fairness *)
(*   SpecGroups    the limiter objects of the five route groups            *)
(*   SpecUploadErr the uploads with a database insert that can fail        *)
(*   SpecUploads   concurrent uploads whose generated names may coincide   *)
(* Each specification leaves the variables of the others unchanged.       *)
(***************************************************************************)
EXTENDS Integers, Sequences, FiniteSets, TLC


(***************************************************************************)
(* Rate limiter (src/modules/rate_limiter.py)                              *)
(***************************************************************************)
VARIABLES
    times,          \* RateLimiter.times   (constructor argument N)
    seconds,        \* RateLimiter.seconds (constructor argument W)
    requests,       \* RateLimiter.requests: client_ip -> deque(maxlen=times)
    current_time,   \* the value time.time() returns, in whole seconds
    rl_log,         \* history: every call so far, <<client, time, status>>
    limiters        \* the requests dict of each module's rate_limiter object

(***************************************************************************)
(* Authorization guard (src/modules/functions.py)                          *)
(***************************************************************************)
VARIABLES
    authorization,  \* request.headers.get("Authorization"): None or a string
    auth_result     \* "pending", then the outcome of authorize_admin

(***************************************************************************)
(* File catalogue, storage directory, request handlers and expiry tasks   *)
(* (src/services/database.py, src/routes/upload.py, file.py, delete.py)    *)
(***************************************************************************)
VARIABLES
    now,            \* datetime.now(timezone.utc) / CURRENT_TIMESTAMP, in days
    import_time,    \* the instant the modules of the running process were imported
    disk,           \* the files of STORAGE_DIR: set of [path, owner, size]
    files,          \* the rows of table "files"
    next_id,        \* the next value of the AUTOINCREMENT id
    uuids_drawn,    \* how many distinct values uuid.uuid4() has returned so far
    handlers,       \* the request handlers in progress (suspended at an await)
    tasks,          \* the auto_delete_expired_file_task tasks not yet finished
    access_tasks,   \* the detached update_file_access tasks not yet run
    event,          \* what the latest step sent or did: a response, a removal
    n_requests,     \* requests received so far (history; numbers the requests)
    n_restarts,     \* process restarts so far (history)
    deleted_paths,  \* file paths deleted by DELETE and not uploaded since (history)
    compress_tasks  \* the create_image_compression_task tasks not yet finished

(***************************************************************************)
(* Connection pool and database transactions (src/services/database.py)   *)
(***************************************************************************)
VARIABLES
    semaphore,      \* pool.semaphore: [value, waiters]
    connections,    \* pool.connections: the free list
    ops,            \* the database operations of the concurrent tasks
    opened,         \* connections aiosqlite.connect has returned (history)
    db_lock,        \* the connection whose open transaction holds the write lock, or 0
    pending         \* the rows as that transaction sees them (not yet committed)

rl_vars   == <<times, seconds, requests, current_time, rl_log, limiters>>
pool_vars == <<semaphore, connections, ops, opened, db_lock, pending>>
auth_vars == <<authorization, auth_result>>
file_vars == <<now, import_time, disk, files, next_id, uuids_drawn, handlers, tasks,
               access_tasks, event, n_requests, n_restarts, deleted_paths,
               compress_tasks>>
vars      == <<rl_vars, auth_vars, file_vars, pool_vars>>

----------------------------------------------------------------------------
(* Bounds of the rate-limiter state machine. *)
MaxClock    == 5    \* time.time() ranges over 0..MaxClock
MaxCalls    == 5    \* calls of the limiter in one behaviour

\* the (times, seconds) pairs a RateLimiter is constructed with
TimesValues   == {1, 2, 3}
SecondsValues == {2, 5}

\* request.client.host values
Clients == {"10.0.0.1", "10.0.0.2"}

\* current_time - self.seconds  (rate_limiter.py line 23)
CutoffLate(t, w) == t - w - 1
Cutoff(t, w) == t - w

\* while request_times and request_times[0] <= cutoff: request_times.popleft()
RECURSIVE PopExpiredStrict(_, _)
PopExpiredStrict(q, cutoff) ==
    IF q # <<>> /\ Head(q) < cutoff
    THEN PopExpiredStrict(Tail(q), cutoff)
    ELSE q

RECURSIVE PopExpiredLoop(_, _)
PopExpiredLoop(q, cutoff) ==
    IF q # <<>> /\ Head(q) <= cutoff
    THEN PopExpiredLoop(Tail(q), cutoff)
    ELSE q

PopExpired(q, cutoff) == PopExpiredLoop(q, cutoff)

\* deque(maxlen=n).append(x): a full deque drops its leftmost element
DequeAppend(q, x, maxlen) ==
    IF Len(q) >= maxlen THEN Append(Tail(q), x) ELSE Append(q, x)

\* the modules that construct a RateLimiter at import and put it in the
\* dependencies of their routes: pages/home.py, routes/file.py (view and
\* download), routes/upload.py, routes/delete.py, routes/compression.py
RouteGroups == {"home", "file", "upload", "delete", "compress"}

\* defaultdict(lambda: deque(maxlen=times)) of each limiter object: empty
NoRequests == [g \in RouteGroups |-> [c \in Clients |-> <<>>]]

RLInit ==
    /\ times \in TimesValues
    /\ seconds \in SecondsValues
    /\ requests = [c \in Clients |-> <<>>]
    /\ current_time = 0
    /\ rl_log = <<>>
    /\ limiters = NoRequests

\* RateLimiter.__call__ for a request of client c
RateLimiterCall(c) ==
    /\ Len(rl_log) < MaxCalls
    /\ LET request_times == PopExpired(requests[c], Cutoff(current_time, seconds))
       IN  IF Len(request_times) >= times
           THEN /\ requests' = [requests EXCEPT ![c] = request_times]
                /\ rl_log' = Append(rl_log, [client |-> c, t |-> current_time, status |-> 429])
           ELSE /\ requests' = [requests EXCEPT ![c] =
                                    DequeAppend(request_times, current_time, times)]
                /\ rl_log' = Append(rl_log, [client |-> c, t |-> current_time, status |-> 200])
    /\ UNCHANGED <<times, seconds, current_time, limiters, auth_vars, file_vars, pool_vars>>

\* the wall clock advances between calls
ClockTick ==
    /\ current_time < MaxClock
    /\ current_time' = current_time + 1
    /\ UNCHANGED <<times, seconds, requests, rl_log, limiters, auth_vars, file_vars, pool_vars>>

RLNext ==
    \/ \E c \in Clients : RateLimiterCall(c)
    \/ ClockTick

(* The limiter of routes/upload.py and the two routes that depend on it. *)
MaxUploadCalls == 11    \* requests to the upload routes in one behaviour
MaxUploadClock == 10    \* time.time() ranges over 0, 5, .. up to MaxUploadClock

\* rate_limiter = RateLimiter(times=10, seconds=10), the one limiter object of
\* the module
upload_rate_limiter == [times |-> 10, seconds |-> 10]

\* the routes of the module with Depends(rate_limiter) in their dependencies;
\* both name the same object
UploadRoutes == {"/api/upload", "/api/upload/multiple"}

\* the clients that call the upload routes
UploadClients == {"10.0.0.1"}

UploadRLInit ==
    /\ times = upload_rate_limiter.times
    /\ seconds = upload_rate_limiter.seconds
    /\ requests = [c \in Clients |-> <<>>]
    /\ current_time = 0
    /\ rl_log = <<>>
    /\ limiters = NoRequests

\* a request of client c to an upload route: its dependency rate_limiter runs
\* RateLimiter.__call__ on the module's limiter object, whatever the route
UploadRouteCall(endpoint, c) ==
    /\ Len(rl_log) < MaxUploadCalls
    /\ LET request_times == PopExpired(requests[c], Cutoff(current_time, seconds))
       IN  IF Len(request_times) >= times
           THEN /\ requests' = [requests EXCEPT ![c] = request_times]
                /\ rl_log' = Append(rl_log, [client |-> c, t |-> current_time,
                                             status |-> 429, endpoint |-> endpoint])
           ELSE /\ requests' = [requests EXCEPT ![c] =
                                    DequeAppend(request_times, current_time, times)]
                /\ rl_log' = Append(rl_log, [client |-> c, t |-> current_time,
                                             status |-> 200, endpoint |-> endpoint])
    /\ UNCHANGED <<times, seconds, current_time, limiters, auth_vars, file_vars, pool_vars>>

\* the wall clock, observed every 5 seconds
UploadClockTick ==
    /\ current_time + 5 <= MaxUploadClock
    /\ current_time' = current_time + 5
    /\ UNCHANGED <<times, seconds, requests, rl_log, limiters, auth_vars, file_vars, pool_vars>>

UploadRLNext ==
    \/ \E endpoint \in UploadRoutes, c \in UploadClients : UploadRouteCall(endpoint, c)
    \/ UploadClockTick

(* The limiter objects of the five route groups, called by two clients. *)
MaxGroupCalls == 4    \* requests to the routes in one behaviour

\* RateLimiter(times=20, seconds=5) of home.py, delete.py and compression.py,
\* (200, 5) of file.py and (10, 10) of upload.py, with times in tens
GroupLimiter(g) ==
    CASE g = "file"   -> [times |-> 20, seconds |-> 5]
      [] g = "upload" -> [times |-> 1, seconds |-> 10]
      [] OTHER        -> [times |-> 2, seconds |-> 5]

\* the limiter object in the dependencies of the routes of group g: the
\* rate_limiter of the group's own module
LimiterShared(g) == "home"
Limiter(g) == g

\* a request of client c to a route of group g
GroupCall(g, c) ==
    /\ Len(rl_log) < MaxGroupCalls
    /\ LET self == GroupLimiter(Limiter(g))
           request_times == PopExpired(limiters[Limiter(g)][c],
                                       Cutoff(current_time, self.seconds))
       IN  IF Len(request_times) >= self.times
           THEN /\ limiters' = [limiters EXCEPT ![Limiter(g)][c] = request_times]
                /\ rl_log' = Append(rl_log, [client |-> c, t |-> current_time,
                                             status |-> 429, endpoint |-> g])
           ELSE /\ limiters' = [limiters EXCEPT ![Limiter(g)][c] =
                                    DequeAppend(request_times, current_time, self.times)]
                /\ rl_log' = Append(rl_log, [client |-> c, t |-> current_time,
                                             status |-> 200, endpoint |-> g])
    /\ UNCHANGED <<times, seconds, requests, current_time, auth_vars, file_vars, pool_vars>>

GroupsNext ==
    \/ \E g \in RouteGroups, c \in Clients : GroupCall(g, c)
    \/ UploadClockTick

----------------------------------------------------------------------------
(***************************************************************************)
(* authorize_admin.  A header value is a string; it is modelled as a       *)
(* sequence of symbols: "Bearer" (the substring the code looks for), " "   *)
(* (the separator of split), "key" (the text of ApiConfig.MASTER_KEY) and  *)
(* "x" (any other text).                                                   *)
(***************************************************************************)
MaxHeaderLen == 4

Symbols == {"Bearer", " ", "key", "x"}

RECURSIVE SeqsUpTo(_, _)
SeqsUpTo(S, n) ==
    IF n = 0 THEN {<<>>}
    ELSE LET shorter == SeqsUpTo(S, n - 1)
         IN  shorter \cup {Append(s, x) : s \in shorter, x \in S}

\* request.headers.get("Authorization"): absent, or a string (possibly empty)
NoHeader == [present |-> FALSE, value |-> <<>>]
Headers == {NoHeader} \cup
           {[present |-> TRUE, value |-> s] : s \in SeqsUpTo(Symbols, MaxHeaderLen)}

\* ApiConfig.MASTER_KEY
MASTER_KEY == <<"key">>

\* "Bearer" in authorization
ContainsBearer(s) == \E i \in 1..Len(s) : s[i] = "Bearer"

\* authorization.split(" "): the pieces between the separators (never empty list)
RECURSIVE Split(_)
Split(s) ==
    IF \A i \in 1..Len(s) : s[i] # " "
    THEN <<s>>
    ELSE LET k == CHOOSE i \in 1..Len(s) :
                      s[i] = " " /\ \A j \in 1..(i - 1) : s[j] # " "
         IN  <<SubSeq(s, 1, k - 1)>> \o Split(SubSeq(s, k + 1, Len(s)))

\* the outcome of authorize_admin: "401", "403", "ok" (returns True), or "500"
\* for the IndexError that authorization.split(" ")[1] raises when split gives
\* one piece, which no handler catches (Internal Server Error)
AuthorizeAdmin(h) ==
    IF ~h.present \/ h.value = <<>> THEN "401"
    ELSE LET a == h.value
         IN  IF ContainsBearer(a) /\ Len(Split(a)) < 2 THEN "500"
             ELSE LET token == IF ContainsBearer(a) THEN Split(a)[2] ELSE a
                  IN  IF token # MASTER_KEY THEN "403" ELSE "ok"

AuthInit ==
    /\ authorization \in Headers
    /\ auth_result = "pending"

authorize_admin ==
    /\ auth_result = "pending"
    /\ auth_result' = AuthorizeAdmin(authorization)
    /\ UNCHANGED <<authorization, rl_vars, file_vars, pool_vars>>

AuthNext == authorize_admin

----------------------------------------------------------------------------
----------------------------------------------------------------------------
(***************************************************************************)
(* The file service.  Instants are whole days (expiry_days is in days).    *)
(* An optional value (Python None, SQL NULL) is <<>>; a present v is <<v>>.*)
(* A handler is one request being served; between two of its actions it   *)
(* is suspended at an await and other handlers and tasks may run.  The     *)
(* rate limiter and authorize_admin run before a handler and touch none of *)
(* this state: a handler here is a request they let through.               *)
(***************************************************************************)
NULL == <<>>

(* Bounds of the file-service state machine. *)
MaxTime     == 2    \* now ranges over 0..MaxTime
MaxRequests == 3    \* requests received in one behaviour
MaxRestarts == 1    \* process restarts in one behaviour

\* upload.py line 77: file_size_limit = 5 * 1024 * 1024 * 1024 bytes.  Sizes are
\* counted in MiB (1024 * 1024 bytes, the size of one full chunk of line 93),
\* because the byte count exceeds the integers of the model checker.
file_size_limit == 5 * 1024

\* the uploaded bodies: the lengths the successive steps of the read loop
\* bring.  A step brings one full chunk (1), or stands for a run of
\* consecutive full chunks (file_size_limit) that the model takes in one step.
Bodies == {<<file_size_limit - 1, 1>>, <<file_size_limit, 1>>}

\* file.filename, as the stem and the extension os.path.splitext gives
Filenames == {[stem |-> "a", ext |-> ".png"]}

\* the form field expiry_days: Optional[int]
ExpiryDays == {NULL, <<0>>, <<1>>}

\* the values uuid.uuid4() can return next: a value never returned before.
\* Values are numbered in the order they are drawn.
uuid4 == {uuids_drawn + 1}

Extensions == {f.ext : f \in Filenames}

\* the file_path values a client may ask for: a name an upload was given, or
\* a name no upload ever gets (0)
FilePaths == {[uuid |-> u, ext |-> e] : u \in 0..uuids_drawn, e \in Extensions}

\* get_safe_filename(filename), with u the value uuid.uuid4() returns
get_safe_filenameNoUuid(filename, u) ==
    [uuid |-> 1, ext |-> IF filename.ext # "" THEN filename.ext ELSE ".bin"]
get_safe_filename(filename, u) ==
    IF filename.stem = "" /\ filename.ext = ""
    THEN [uuid |-> u, ext |-> ".bin"]
    ELSE [uuid |-> u, ext |-> IF filename.ext # "" THEN filename.ext ELSE ".bin"]

\* os.path.exists(path)
Exists(path) == \E f \in disk : f.path = path

\* os.path.join(STORAGE_DIR, safe_filename) is suffix 0; f"{base}_{counter}{ext}"
\* is suffix counter
StoragePath(safe_filename, counter) ==
    [uuid |-> safe_filename.uuid, ext |-> safe_filename.ext, suffix |-> counter]

RECURSIVE FirstFreeCounter(_, _)
FirstFreeCounter(safe_filename, counter) ==
    IF Exists(StoragePath(safe_filename, counter))
    THEN FirstFreeCounter(safe_filename, counter + 1)
    ELSE counter

\* get_unique_path(os.path.join(STORAGE_DIR, safe_filename))
get_unique_pathPreferred(safe_filename) == StoragePath(safe_filename, 0)
get_unique_path(safe_filename) ==
    IF ~Exists(StoragePath(safe_filename, 0))
    THEN StoragePath(safe_filename, 0)
    ELSE StoragePath(safe_filename, FirstFreeCounter(safe_filename, 1))

\* os.remove(path): the directory without the file at path
Removed(path) == {f \in disk : f.path # path}

\* buffer.write(chunk) by the upload that opened the file: the bytes reach
\* the path only while the file this upload created is still linked there
WrittenChunkCount(path, owner, len) ==
    {IF f.path = path /\ f.owner = owner THEN [f EXCEPT !.size = @ + 1] ELSE f
        : f \in disk}
Written(path, owner, len) ==
    {IF f.path = path /\ f.owner = owner THEN [f EXCEPT !.size = @ + len] ELSE f
        : f \in disk}

----------------------------------------------------------------------------
(* services/database.py: FilesTable *)

RowsAt(file_path) == {r \in files : r.file_path = file_path}

\* what a handler reads of the dict a SELECT returns (rid names the upload
\* request that inserted the row)
FileData(r) == [id |-> r.id, rid |-> r.rid, storage_path |-> r.storage_path,
                expires_at |-> r.expires_at]

\* SELECT * FROM files WHERE file_path = ? ; fetchone()
SelectByPath(file_path) ==
    IF RowsAt(file_path) = {} THEN NULL
    ELSE <<FileData(CHOOSE r \in RowsAt(file_path) : TRUE)>>

\* get_file_by_id: SELECT * FROM files WHERE id = ? ; fetchone()
get_file_by_id(id) ==
    IF \E r \in files : r.id = id
    THEN <<FileData(CHOOSE r \in files : r.id = id)>>
    ELSE NULL

\* UPDATE files SET access_count = access_count + 1,
\*                  last_accessed = CURRENT_TIMESTAMP WHERE file_path = ?
AccessUpdated(file_path) ==
    {IF r.file_path = file_path
     THEN [r EXCEPT !.access_count = @ + 1, !.last_accessed = <<now>>]
     ELSE r : r \in files}

\* the table after get_file(file_path): the UPDATE runs only on a hit
AfterGetFile(file_path) ==
    IF SelectByPath(file_path) # NULL THEN AccessUpdated(file_path) ELSE files

\* delete_file: DELETE FROM files WHERE file_path = ?
RowsKeptAll(file_path) == files
RowsKept(file_path) == {r \in files : r.file_path # file_path}

\* the UNIQUE constraint of column file_path (create_table, line 99)
UniqueNotEnforced(file_path) == FALSE
UniqueViolation(file_path) == \E r \in files : r.file_path = file_path

\* SELECT * FROM files WHERE expires_at IS NOT NULL
get_file_they_have_expired_at_not_null == {r \in files : r.expires_at # NULL}

\* file_data.get("expires_at") and fetch_date(...) < datetime.now(timezone.utc)
ExpiredNever(file_data, t) == FALSE
Expired(file_data, t) ==
    file_data.expires_at # NULL /\ file_data.expires_at[1] < t

NoEvent == [kind |-> "none"]

FileInit ==
    /\ now = 0
    /\ import_time = 0
    /\ disk = {}
    /\ files = {}
    /\ next_id = 1
    /\ uuids_drawn = 0
    /\ handlers = {}
    /\ tasks = {}
    /\ access_tasks = {}
    /\ event = NoEvent
    /\ n_requests = 0
    /\ n_restarts = 0
    /\ deleted_paths = {}
    /\ compress_tasks = {}

\* a new request arrives
CanAccept == n_requests < MaxRequests

Replace(h, g) == (handlers \ {h}) \cup {g}

----------------------------------------------------------------------------
(* routes/upload.py: upload_file *)

\* if file_size > file_size_limit
TooLargeInclusive(size) == size >= file_size_limit
TooLarge(size) == size > file_size_limit

\* expires_at = now + timedelta(days=expiry_days) if expiry_days else None
ExpiresAt(expiry_days, t) ==
    IF expiry_days # NULL /\ expiry_days[1] # 0
    THEN <<t + expiry_days[1]>>
    ELSE NULL

RECURSIVE Sum(_)
Sum(lens) == IF lens = <<>> THEN 0 ELSE Head(lens) + Sum(Tail(lens))

UploadResponse(h, status) ==
    [kind |-> "upload", rid |-> h.rid, status |-> status,
     storage_path |-> h.storage_path, body |-> h.body, chunks |-> h.chunks,
     file_size |-> h.file_size, expires_at |-> h.expires_at, id |-> h.id,
     parent |-> h.parent, expiry_days |-> h.expiry_days]

\* what upload_multiple_files appends to results for one call of upload_file
\* (lines 227-238): the JSONResponse object upload_file returned, or the
\* dict {"error": ..., "file_name": ...} for the HTTPException it raised
ResultEntry(h, status) ==
    IF status = 200
    THEN [type |-> "JSONResponse", rid |-> h.rid, status |-> status, body |-> h.body]
    ELSE [type |-> "dict", rid |-> h.rid, status |-> status, body |-> h.body]

\* the handlers once the upload_file run h has ended with status: run for a
\* POST /api/upload request (parent 0) it is gone; called by
\* upload_multiple_files, its caller has the result and goes on
Returned(h, status) ==
    IF h.parent = 0
    THEN handlers \ {h}
    ELSE {IF g.rid = h.parent
          THEN [g EXCEPT !.results = Append(@, ResultEntry(h, status)), !.pc = "next"]
          ELSE g : g \in handlers \ {h}}

\* the upload_file run that starts at lines 82-91, numbered rid; parent is
\* the upload_multiple_files handler that called it, or 0
NewUpload(rid, filename, expiry_days, body, u, parent) ==
    LET safe_filename == get_safe_filename(filename, u)
        storage_path == get_unique_path(safe_filename)
    IN  [rid |-> rid, kind |-> "upload", pc |-> "read",
         file_name |-> IF filename.stem = "" /\ filename.ext = ""
                       THEN safe_filename ELSE filename,
         safe_filename |-> safe_filename, storage_path |-> storage_path,
         expiry_days |-> expiry_days, body |-> body, chunks |-> 0,
         file_size |-> 0, expires_at |-> NULL, id |-> 0, parent |-> parent]

\* lines 82-91: the safe name, the storage path, open(storage_path, "wb")
UploadBegin(filename, expiry_days, body, u) ==
    /\ CanAccept
    /\ LET h == NewUpload(n_requests + 1, filename, expiry_days, body, u, 0)
       IN  /\ disk' = disk \cup {[path |-> h.storage_path, owner |-> h.rid, size |-> 0]}
           /\ handlers' = handlers \cup {h}
    /\ uuids_drawn' = IF u > uuids_drawn THEN u ELSE uuids_drawn
    /\ n_requests' = n_requests + 1
    /\ event' = NoEvent
    /\ UNCHANGED <<rl_vars, auth_vars, pool_vars, compress_tasks, now, import_time, files, next_id, tasks,
                   access_tasks, n_restarts, deleted_paths>>

\* lines 93-105: chunk = await file.read(...) returns the next chunk
UploadRead(h) ==
    /\ h.kind = "upload" /\ h.pc = "read"
    /\ h.chunks < Len(h.body)
    /\ LET len == h.body[h.chunks + 1]
           file_size == h.file_size + len
           g == [h EXCEPT !.file_size = file_size, !.chunks = @ + 1]
       IN  IF TooLarge(file_size)
           THEN \* buffer.close(); os.remove(storage_path); raise HTTPException(413)
                \* (os.remove of a path that is gone raises, which becomes 500)
                /\ disk' = Removed(h.storage_path)
                /\ handlers' = Returned(h, IF Exists(h.storage_path) THEN 413 ELSE 500)
                /\ event' = UploadResponse(g, IF Exists(h.storage_path) THEN 413 ELSE 500)
           ELSE /\ disk' = Written(h.storage_path, h.rid, len)
                /\ handlers' = Replace(h, g)
                /\ event' = NoEvent
    /\ UNCHANGED <<rl_vars, auth_vars, pool_vars, compress_tasks, now, import_time, files, next_id, uuids_drawn,
                   tasks, access_tasks, n_requests, n_restarts, deleted_paths>>

\* lines 94-116: the empty chunk ends the loop; the expiry instant is computed
UploadEOF(h) ==
    /\ h.kind = "upload" /\ h.pc = "read"
    /\ h.chunks = Len(h.body)
    /\ handlers' = Replace(h, [h EXCEPT !.pc = "insert",
                                        !.expires_at = ExpiresAt(h.expiry_days, now)])
    /\ event' = [kind |-> "expiry", rid |-> h.rid, expiry_days |-> h.expiry_days,
                 expires_at |-> ExpiresAt(h.expiry_days, now)]
    /\ UNCHANGED <<rl_vars, auth_vars, pool_vars, compress_tasks, now, import_time, disk, files, next_id,
                   uuids_drawn, tasks, access_tasks, n_requests, n_restarts,
                   deleted_paths>>

\* lines 122-129 and database.py add_new_file: INSERT and commit; a duplicate
\* file_path raises IntegrityError, which line 159 turns into 500
UploadInsert(h) ==
    /\ h.kind = "upload" /\ h.pc = "insert"
    /\ IF UniqueViolation(h.safe_filename)
       THEN /\ handlers' = Returned(h, 500)
            /\ event' = UploadResponse(h, 500)
            /\ UNCHANGED <<files, next_id, deleted_paths>>
       ELSE /\ files' = files \cup
                {[id |-> next_id, rid |-> h.rid, file_path |-> h.safe_filename,
                  storage_path |-> h.storage_path, file_name |-> h.file_name,
                  file_size |-> h.file_size, access_count |-> 0,
                  last_accessed |-> NULL, expires_at |-> h.expires_at,
                  uploaded_at |-> import_time, swept |-> FALSE]}
            /\ next_id' = next_id + 1
            /\ deleted_paths' = {d \in deleted_paths : d.file_path # h.safe_filename}
            /\ handlers' = Replace(h, [h EXCEPT !.pc = "respond", !.id = next_id])
            /\ event' = [kind |-> "insert", rid |-> h.rid, id |-> next_id,
                         file_path |-> h.safe_filename, file_name |-> h.file_name]
    /\ UNCHANGED <<rl_vars, auth_vars, pool_vars, compress_tasks, now, import_time, disk, uuids_drawn, tasks,
                   access_tasks, n_requests, n_restarts>>

\* lines 122-129 and 159-161: await files_db.add_new_file(...) raises (the
\* IntegrityError of a duplicate file_path, or the OperationalError of a
\* database whose write lock another connection holds); except Exception
\* turns it into 500, and nothing removes the file written at storage_path
UploadInsertRaises(h) ==
    /\ h.kind = "upload" /\ h.pc = "insert"
    /\ handlers' = Returned(h, 500)
    /\ event' = UploadResponse(h, 500)
    /\ UNCHANGED <<rl_vars, auth_vars, pool_vars, compress_tasks, now, import_time, disk, files,
                   next_id, uuids_drawn, tasks, access_tasks, n_requests, n_restarts,
                   deleted_paths>>

\* a task created by asyncio.create_task(auto_delete_expired_file_task(...)):
\* armed by upload with data_id, by startup_event with file_data
NewTask(id, armed, file_data) ==
    [id |-> id, armed |-> armed, pc |-> "start", file_data |-> file_data,
     wake_at |-> NULL]

\* lines 137-154: the deletion task is created and the response returned
UploadRespond(h) ==
    /\ h.kind = "upload" /\ h.pc = "respond"
    /\ tasks' = IF h.expires_at # NULL
                THEN tasks \cup {NewTask(h.id, "upload", NULL)}
                ELSE tasks
    /\ handlers' = Returned(h, 200)
    /\ event' = UploadResponse(h, 200)
    /\ UNCHANGED <<rl_vars, auth_vars, pool_vars, compress_tasks, now, import_time, disk, files, next_id,
                   uuids_drawn, access_tasks, n_requests, n_restarts, deleted_paths>>

----------------------------------------------------------------------------
(* routes/upload.py: auto_delete_expired_file_task and startup_event *)

\* (expires_at - datetime.now(timezone.utc)).total_seconds()
SleepDelayShort(expires_at, t) == expires_at - t - 1
SleepDelay(expires_at, t) == expires_at - t

\* lines 186-199: the record is fetched when only its id was given, the delay
\* computed, and the task sleeps; asyncio.sleep(d) started at t ends at or
\* after t + d (at once when d <= 0)
TaskStart(t) ==
    /\ t.pc = "start"
    /\ LET file_data == IF t.armed = "upload" THEN get_file_by_id(t.id) ELSE t.file_data
       IN  IF file_data = NULL \/ file_data[1].expires_at = NULL
           THEN /\ tasks' = tasks \ {t}
                /\ event' = [kind |-> "task", id |-> t.id, result |-> "returned"]
           ELSE /\ tasks' = (tasks \ {t}) \cup
                     {[t EXCEPT !.pc = "sleep", !.file_data = file_data,
                                !.wake_at = <<now + SleepDelay(file_data[1].expires_at[1], now)>>]}
                /\ event' = NoEvent
    /\ UNCHANGED <<rl_vars, auth_vars, pool_vars, compress_tasks, now, import_time, disk, files, next_id,
                   uuids_drawn, handlers, access_tasks, n_requests, n_restarts,
                   deleted_paths>>

\* the rows once the task of record id has removed the bytes at path: no
\* row is changed or deleted; swept (history) marks the record whose bytes
\* an expiry task removed
Swept(id, path) ==
    {IF r.id = id /\ Exists(path) THEN [r EXCEPT !.swept = TRUE] ELSE r : r \in files}

\* lines 200-205: the sleep is over; os.remove(storage_path), failures logged
TaskWake(t) ==
    /\ t.pc = "sleep"
    /\ now >= t.wake_at[1]
    /\ disk' = Removed(t.file_data[1].storage_path)
    /\ files' = Swept(t.id, t.file_data[1].storage_path)
    /\ tasks' = tasks \ {t}
    /\ event' = [kind |-> "task", id |-> t.id, armed |-> t.armed,
                 result |-> IF Exists(t.file_data[1].storage_path)
                            THEN "removed" ELSE "error",
                 expires_at |-> t.file_data[1].expires_at,
                 storage_path |-> t.file_data[1].storage_path]
    /\ UNCHANGED <<rl_vars, auth_vars, pool_vars, compress_tasks, now, import_time, next_id, uuids_drawn,
                   handlers, access_tasks, n_requests, n_restarts, deleted_paths>>

\* the tasks startup_event creates (lines 172-176)
StartupTasksNone == {}
StartupTasks ==
    {NewTask(r.id, "startup", <<FileData(r)>>) :
        r \in get_file_they_have_expired_at_not_null}

\* the process stops and is started again: handlers and tasks are lost, the
\* database and the storage directory stay, the modules are imported anew and
\* startup_event runs before any request is served
Restart ==
    /\ n_restarts < MaxRestarts
    /\ n_restarts' = n_restarts + 1
    /\ handlers' = {}
    /\ access_tasks' = {}
    /\ import_time' = now
    /\ tasks' = StartupTasks
    /\ compress_tasks' = {}
    /\ event' = [kind |-> "restart"]
    /\ UNCHANGED <<rl_vars, auth_vars, pool_vars, now, disk, files, next_id, uuids_drawn,
                   n_requests, deleted_paths>>

\* time passes
Tick ==
    /\ now < MaxTime
    /\ now' = now + 1
    /\ event' = NoEvent
    /\ UNCHANGED <<rl_vars, auth_vars, pool_vars, compress_tasks, import_time, disk, files, next_id, uuids_drawn,
                   handlers, tasks, access_tasks, n_requests, n_restarts,
                   deleted_paths>>

----------------------------------------------------------------------------
(* routes/file.py: serve_file (view_file and download_file) *)

\* lines 43-55, with file_data the result of get_file and t the instant of
\* the checks
ServeStatusBytesFirst(file_data, t) ==
    IF file_data = NULL THEN 404
    ELSE IF ~Exists(file_data[1].storage_path) THEN 404
    ELSE IF Expired(file_data[1], t) THEN 410
    ELSE 200

ServeStatus(file_data, t) ==
    IF file_data = NULL THEN 404
    ELSE IF Expired(file_data[1], t) THEN 410
    ELSE IF ~Exists(file_data[1].storage_path) THEN 404
    ELSE 200

\* the access_count the SELECT of get_file reads (0 when there is no row)
AccessCountRead(file_path) ==
    IF RowsAt(file_path) = {} THEN 0
    ELSE (CHOOSE r \in RowsAt(file_path) : TRUE).access_count

\* line 43: file_data = await files_db.get_file(file_path).  before, quiet
\* and after_sweep are history: the access_count read, whether no other
\* handler or access task was in progress when the request arrived, and
\* whether an expiry task had removed the bytes of the record by then
ServeBegin(file_path) ==
    /\ CanAccept
    /\ handlers' = handlers \cup
         {[rid |-> n_requests + 1, kind |-> "serve", pc |-> "check",
           file_path |-> file_path, file_data |-> SelectByPath(file_path),
           after_delete |-> \E d \in deleted_paths : d.file_path = file_path,
           after_sweep |-> \E r \in RowsAt(file_path) : r.swept,
           before |-> AccessCountRead(file_path),
           quiet |-> handlers = {} /\ access_tasks = {}]}
    /\ files' = AfterGetFile(file_path)
    /\ n_requests' = n_requests + 1
    /\ event' = NoEvent
    /\ UNCHANGED <<rl_vars, auth_vars, pool_vars, compress_tasks, now, import_time, disk, next_id, uuids_drawn,
                   tasks, access_tasks, n_restarts, deleted_paths>>

\* lines 44-118: the checks, the detached update_file_access, the response
ServeCheck(h) ==
    /\ h.kind = "serve" /\ h.pc = "check"
    /\ LET status == ServeStatus(h.file_data, now)
       IN  /\ access_tasks' = IF status = 200
                              THEN access_tasks \cup
                                     {[rid |-> h.rid, file_path |-> h.file_path,
                                       before |-> h.before, quiet |-> h.quiet]}
                              ELSE access_tasks
           /\ event' = [kind |-> "serve", rid |-> h.rid, status |-> status,
                        file_path |-> h.file_path, file_data |-> h.file_data,
                        after_delete |-> h.after_delete,
                        after_sweep |-> h.after_sweep]
    /\ handlers' = handlers \ {h}
    /\ UNCHANGED <<rl_vars, auth_vars, pool_vars, compress_tasks, now, import_time, disk, files, next_id,
                   uuids_drawn, tasks, n_requests, n_restarts, deleted_paths>>

\* database.py update_file_access, run as the detached task of line 65
UpdateFileAccess(a) ==
    /\ a \in access_tasks
    /\ files' = AccessUpdated(a.file_path)
    /\ access_tasks' = access_tasks \ {a}
    /\ event' = [kind |-> "access", rid |-> a.rid, file_path |-> a.file_path,
                 before |-> a.before, quiet |-> a.quiet]
    /\ UNCHANGED <<rl_vars, auth_vars, pool_vars, compress_tasks, now, import_time, disk, next_id, uuids_drawn,
                   handlers, tasks, n_requests, n_restarts, deleted_paths>>

----------------------------------------------------------------------------
(* routes/delete.py: delete_file *)

\* lines 37-47
DeleteStatusNoExpiry(file_data, t) ==
    IF file_data = NULL THEN 404
    ELSE IF ~Exists(file_data[1].storage_path) THEN 404
    ELSE 200
DeleteStatus(file_data, t) ==
    IF file_data = NULL THEN 404
    ELSE IF Expired(file_data[1], t) THEN 410
    ELSE IF ~Exists(file_data[1].storage_path) THEN 404
    ELSE 200

\* line 37: file_data = await files_db.get_file(file_path)
DeleteBegin(file_path) ==
    /\ CanAccept
    /\ handlers' = handlers \cup
         {[rid |-> n_requests + 1, kind |-> "delete", pc |-> "check",
           file_path |-> file_path, file_data |-> SelectByPath(file_path)]}
    /\ files' = AfterGetFile(file_path)
    /\ n_requests' = n_requests + 1
    /\ event' = NoEvent
    /\ UNCHANGED <<rl_vars, auth_vars, pool_vars, compress_tasks, now, import_time, disk, next_id, uuids_drawn,
                   tasks, access_tasks, n_restarts, deleted_paths>>

\* lines 38-50: the checks, then os.remove(storage_path)
DeleteCheck(h) ==
    /\ h.kind = "delete" /\ h.pc = "check"
    /\ LET status == DeleteStatus(h.file_data, now)
       IN  IF status = 200
           THEN /\ disk' = Removed(h.file_data[1].storage_path)
                /\ handlers' = Replace(h, [h EXCEPT !.pc = "del_row"])
                /\ event' = [kind |-> "unlink", rid |-> h.rid, file_path |-> h.file_path]
           ELSE /\ handlers' = handlers \ {h}
                /\ event' = [kind |-> "delete", rid |-> h.rid, status |-> status,
                             file_path |-> h.file_path]
                /\ UNCHANGED disk
    /\ UNCHANGED <<rl_vars, auth_vars, pool_vars, compress_tasks, now, import_time, files, next_id, uuids_drawn,
                   tasks, access_tasks, n_requests, n_restarts, deleted_paths>>

\* lines 51-52 and database.py delete_file: the row is deleted, 200 returned
DeleteRow(h) ==
    /\ h.kind = "delete" /\ h.pc = "del_row"
    /\ files' = RowsKept(h.file_path)
    /\ deleted_paths' = deleted_paths \cup
                          {[file_path |-> h.file_path, rid |-> h.file_data[1].rid]}
    /\ handlers' = handlers \ {h}
    /\ event' = [kind |-> "delete", rid |-> h.rid, status |-> 200,
                 file_path |-> h.file_path]
    /\ UNCHANGED <<rl_vars, auth_vars, pool_vars, compress_tasks, now, import_time, disk, next_id, uuids_drawn,
                   tasks, access_tasks, n_requests, n_restarts>>

----------------------------------------------------------------------------
(* routes/upload.py: upload_multiple_files *)

\* the lists of files of a multi-upload request, each file given by its body
FileLists == {<<>>} \cup {<<b>> : b \in Bodies} \cup {<<b, c>> : b, c \in Bodies}

\* "error" in r, for an entry r of results: a dict has the key or not; a
\* JSONResponse object supports no "in" test and raises TypeError
HasError(r) ==
    IF r.type = "dict" THEN "yes" ELSE "TypeError"

\* lines 239-244: the counts computed over results and the response; the
\* TypeError of a test on a JSONResponse entry is caught nowhere and the
\* request ends in 500 Internal Server Error
Aggregate(results) ==
    IF \E i \in 1..Len(results) : HasError(results[i]) = "TypeError"
    THEN [status |-> 500, uploaded_count |-> NULL, failed_count |-> NULL]
    ELSE [status |-> 200,
          uploaded_count |->
              <<Cardinality({i \in 1..Len(results) : HasError(results[i]) # "yes"})>>,
          failed_count |->
              <<Cardinality({i \in 1..Len(results) : HasError(results[i]) = "yes"})>>]

\* lines 222-223: an empty list is refused with 400; else the loop starts.
\* Every call of upload_file takes a number of its own, as a request does.
MultiBegin(file_list, expiry_days) ==
    /\ n_requests + 1 + Len(file_list) <= MaxRequests
    /\ IF file_list = <<>>
       THEN /\ event' = [kind |-> "multi", rid |-> n_requests + 1, status |-> 400,
                         given |-> file_list, results |-> <<>>,
                         uploaded_count |-> NULL, failed_count |-> NULL]
            /\ UNCHANGED handlers
       ELSE /\ handlers' = handlers \cup
                 {[rid |-> n_requests + 1, kind |-> "multi", pc |-> "next",
                   given |-> file_list, todo |-> file_list,
                   expiry_days |-> expiry_days, results |-> <<>>]}
            /\ event' = NoEvent
    /\ n_requests' = n_requests + 1
    /\ UNCHANGED <<rl_vars, auth_vars, pool_vars, compress_tasks, now, import_time, disk, files,
                   next_id, uuids_drawn, tasks, access_tasks, n_restarts,
                   deleted_paths>>

\* lines 226-235: file_result = await upload_file(...) for the next file;
\* upload_file runs up to its first await
MultiCall(h, filename, u) ==
    /\ h.kind = "multi" /\ h.pc = "next"
    /\ h.todo # <<>>
    /\ LET c == NewUpload(n_requests + 1, filename, h.expiry_days, Head(h.todo), u, h.rid)
       IN  /\ disk' = disk \cup {[path |-> c.storage_path, owner |-> c.rid, size |-> 0]}
           /\ handlers' = (handlers \ {h}) \cup
                            {[h EXCEPT !.pc = "wait", !.todo = Tail(@)], c}
    /\ uuids_drawn' = IF u > uuids_drawn THEN u ELSE uuids_drawn
    /\ n_requests' = n_requests + 1
    /\ event' = NoEvent
    /\ UNCHANGED <<rl_vars, auth_vars, pool_vars, compress_tasks, now, import_time, files,
                   next_id, tasks, access_tasks, n_restarts, deleted_paths>>

\* lines 239-244: the loop is over and the aggregate response is built
MultiFinish(h) ==
    /\ h.kind = "multi" /\ h.pc = "next"
    /\ h.todo = <<>>
    /\ handlers' = handlers \ {h}
    /\ event' = [kind |-> "multi", rid |-> h.rid,
                 status |-> Aggregate(h.results).status,
                 given |-> h.given, results |-> h.results,
                 uploaded_count |-> Aggregate(h.results).uploaded_count,
                 failed_count |-> Aggregate(h.results).failed_count]
    /\ UNCHANGED <<rl_vars, auth_vars, pool_vars, compress_tasks, now, import_time, disk, files,
                   next_id, uuids_drawn, tasks, access_tasks, n_requests,
                   n_restarts, deleted_paths>>

\* The multi-upload requests with the upload_file runs they call, the expiry
\* tasks these arm, and time.
NextMulti ==
    \/ \E file_list \in FileLists, expiry_days \in ExpiryDays :
          MultiBegin(file_list, expiry_days)
    \/ \E h \in handlers, filename \in Filenames, u \in uuid4 : MultiCall(h, filename, u)
    \/ \E h \in handlers : MultiFinish(h)
    \/ \E h \in handlers : UploadRead(h)
    \/ \E h \in handlers : UploadEOF(h)
    \/ \E h \in handlers : UploadInsert(h)
    \/ \E h \in handlers : UploadRespond(h)
    \/ \E t \in tasks : TaskStart(t)
    \/ \E t \in tasks : TaskWake(t)
    \/ Tick

----------------------------------------------------------------------------
(* main.py: the exception handlers, and the error responses of the routes *)
MaxErrRequests == 5     \* failing requests in one behaviour

\* the status codes main.py registers a handler for (lines 51, 57, 64, 70)
exception_handlers == {404, 429, 500, 410}

\* request.url.path.startswith("/api"); a path is its sequence of segments
StartsWithApi(path) == path # <<>> /\ Head(path) = "api"

\* an HTTPException(status_code, detail) raised by a dependency or a handler
\* of the route at path
Raise(path, status, detail) ==
    [path |-> path, how |-> "raise", status |-> status, detail |-> detail]

\* a JSONResponse(status_code, {"message": detail}) the handler itself returns
ReturnMessage(path, status, detail) ==
    [path |-> path, how |-> "return", status |-> status, detail |-> detail]

\* modules/rate_limiter.py line 27, modules/functions.py lines 26 and 36
Throttled(path) == {Raise(path, 429, "Too many requests")}
Unauthorized(path) == {Raise(path, 401, "Unauthorized"), Raise(path, 403, "Forbidden")}

\* the failures of each route, and of a path no route matches
ErrorCases ==
    LET upload == <<"api", "upload">>
        multiple == <<"api", "upload", "multiple">>
        delete == <<"api", "delete", "f">>
        compress == <<"api", "compress", "f">>
        view == <<"file", "view", "f">>
        download == <<"file", "download", "f">>
        served(path) == Throttled(path) \cup
                        {Raise(path, 404, "File not found"),
                         Raise(path, 410, "File has expired"),
                         Raise(path, 404, "File not found in storage")}
    IN  Throttled(upload) \cup Unauthorized(upload) \cup
            {Raise(upload, 413, "File too large"),
             Raise(upload, 500, "Error uploading file")}
        \cup Throttled(multiple) \cup {Raise(multiple, 400, "No files provided")}
        \cup Throttled(delete) \cup Unauthorized(delete) \cup
            {Raise(delete, 404, "File not found"),
             Raise(delete, 410, "File has expired"),
             Raise(delete, 404, "File not found in storage"),
             Raise(delete, 500, "Error deleting file")}
        \cup Throttled(compress) \cup Unauthorized(compress) \cup
            {ReturnMessage(compress, 400, "Invalid query parameters"),
             ReturnMessage(compress, 500, "Error compressing file")}
        \cup served(view) \cup served(download)
        \cup {Raise(<<"api", "x">>, 404, "Not Found"), Raise(<<"x">>, 404, "Not Found")}

\* lines 51-74: the response of the handler registered for exc.status_code
HandlerResponse(path, status, detail) ==
    LET message == CASE status = 404 -> "Route not found"
                     [] status = 429 -> "Too many requests"
                     [] status = 410 -> "File has expired"
                     [] OTHER -> detail
    IN  IF StartsWithApi(path)
        THEN [media |-> "json", field |-> "error", message |-> message, status |-> status]
        ELSE [media |-> "html", field |-> "message", message |-> message, status |-> status]

\* the response a client gets: what the handler returned, the response of the
\* handler registered for the raised status, or, for a status without one,
\* the framework's own {"detail": ...}
ErrorResponse(c) ==
    IF c.how = "return"
    THEN [media |-> "json", field |-> "message", message |-> c.detail, status |-> c.status]
    ELSE IF c.status \in exception_handlers
         THEN HandlerResponse(c.path, c.status, c.detail)
         ELSE [media |-> "json", field |-> "detail", message |-> c.detail,
               status |-> c.status]

\* a request that fails as case c, and its response
ErrorRequest(c) ==
    /\ n_requests < MaxErrRequests
    /\ n_requests' = n_requests + 1
    /\ event' = [kind |-> "error", rid |-> n_requests + 1, case |-> c,
                 response |-> ErrorResponse(c)]
    /\ UNCHANGED <<rl_vars, auth_vars, pool_vars, compress_tasks, now, import_time, disk, files,
                   next_id, uuids_drawn, handlers, tasks, access_tasks, n_restarts,
                   deleted_paths>>

NextErr == \E c \in ErrorCases : ErrorRequest(c)

----------------------------------------------------------------------------
(* services/database.py: DatabaseConnectionPool, get_connection, and the   *)
(* operations of FilesTable run by concurrent tasks, each on its pooled    *)
(* connection                                                              *)
MAX_CONNECTIONS == 2    \* capacity of the pool (50 in database.py, line 14)
MaxTasks == 3           \* concurrent database operations in one behaviour

PoolTasks == 1..MaxTasks

\* what no step of a database operation changes
pool_frame == <<rl_vars, auth_vars, compress_tasks, now, import_time, disk,
                uuids_drawn, handlers, tasks, access_tasks, n_requests, n_restarts,
                deleted_paths>>

PoolPath(u) == [ext |-> ".png", uuid |-> u]

\* the table the operations start from: a record without expiry and one
\* that expires at instant 1
PoolTable ==
    {[id |-> u, rid |-> u, file_path |-> PoolPath(u),
      storage_path |-> StoragePath(PoolPath(u), 0),
      file_name |-> [stem |-> "a", ext |-> ".png"], file_size |-> 1,
      access_count |-> 0, last_accessed |-> NULL,
      expires_at |-> IF u = 2 THEN <<1>> ELSE NULL,
      uploaded_at |-> 0, swept |-> FALSE] : u \in {1, 2}}

\* the calls of FilesTable a task makes: on an existing path (1), on a path
\* with no row (3)
DbCalls ==
    [kind : {"get_file", "add_new_file"}, file_path : {PoolPath(1), PoolPath(3)}]
    \cup [kind : {"update_file_access"}, file_path : {PoolPath(1)}]
    \cup [kind : {"clear_expired_files"}, file_path : {PoolPath(0)}]

IdleOp == [pc |-> "idle", call |-> [kind |-> "none", file_path |-> PoolPath(0)],
           connection |-> 0, file_data |-> NULL]

PoolInit ==
    /\ semaphore = [value |-> MAX_CONNECTIONS, waiters |-> <<>>]
    /\ connections = <<>>
    /\ ops = [t \in PoolTasks |-> IdleOp]
    /\ opened = 0
    /\ db_lock = 0
    /\ pending = {}

\* the rows a statement on connection c reads: its own open transaction's,
\* else the committed ones
View(c) == IF db_lock = c THEN pending ELSE files

\* if self.connections (acquire, line 44)
ReusableNever(free) == FALSE
Reusable(free) == free # <<>>

\* the first statement of a call
FirstPc(call) == IF call.kind = "get_file" THEN "select" ELSE "execute"

InBlock(pc) == pc \in {"select", "execute", "commit"}

\* acquire, lines 42-53, run without suspension once the permit is held: a
\* connection of the free list is popped, else one is being created
Checkout(t, call, sem) ==
    /\ semaphore' = sem
    /\ IF Reusable(connections)
       THEN /\ connections' = SubSeq(connections, 1, Len(connections) - 1)
            /\ ops' = [ops EXCEPT ![t] = [@ EXCEPT !.pc = FirstPc(call), !.call = call,
                                  !.connection = connections[Len(connections)]]]
       ELSE /\ connections' = connections
            /\ ops' = [ops EXCEPT ![t] = [@ EXCEPT !.pc = "connecting", !.call = call]]
    /\ event' = [kind |-> "pool", step |-> "acquire", task |-> t,
                 free |-> Len(connections), creates |-> ~Reusable(connections)]
    /\ UNCHANGED <<opened, db_lock, pending, files, next_id>>

\* a task calls an operation: get_connection, pool.acquire, line 40
\* await self.semaphore.acquire(): the permit is taken at once when one is
\* free and nobody waits, else the task joins the waiters
Acquire(t, call) ==
    /\ ops[t].pc = "idle"
    /\ IF semaphore.value > 0 /\ semaphore.waiters = <<>>
       THEN Checkout(t, call, [semaphore EXCEPT !.value = @ - 1])
       ELSE /\ semaphore' = [semaphore EXCEPT !.waiters = Append(@, t)]
            /\ ops' = [ops EXCEPT ![t] = [@ EXCEPT !.pc = "waiting", !.call = call]]
            /\ event' = NoEvent
            /\ UNCHANGED <<connections, opened, db_lock, pending, files, next_id>>
    /\ UNCHANGED pool_frame

\* a released permit goes to the first waiter
Granted(t) ==
    /\ ops[t].pc = "waiting"
    /\ semaphore.value > 0
    /\ Head(semaphore.waiters) = t
    /\ Checkout(t, ops[t].call, [value |-> semaphore.value - 1,
                                 waiters |-> Tail(semaphore.waiters)])
    /\ UNCHANGED pool_frame

\* lines 47-58: aiosqlite.connect returns a connection, or raises and the
\* except Exception clause releases the semaphore and re-raises
Connected(t, ok) ==
    /\ ops[t].pc = "connecting"
    /\ IF ok
       THEN /\ opened' = opened + 1
            /\ ops' = [ops EXCEPT ![t] = [@ EXCEPT !.pc = FirstPc(ops[t].call),
                                                    !.connection = opened + 1]]
            /\ UNCHANGED semaphore
       ELSE /\ semaphore' = [semaphore EXCEPT !.value = @ + 1]
            /\ ops' = [ops EXCEPT ![t] = [@ EXCEPT !.pc = "failed"]]
            /\ UNCHANGED opened
    /\ event' = NoEvent
    /\ UNCHANGED <<pool_frame, connections, db_lock, pending, files, next_id>>

\* pool.release, lines 60-73: the connection goes back to the free list, as
\* it is, and the permit to the semaphore
Released(t) ==
    /\ connections' = Append(connections, ops[t].connection)
    /\ semaphore' = [semaphore EXCEPT !.value = @ + 1]

\* the task is cancelled at the await it is suspended at: while it waits
\* for a permit it leaves the waiters; while its connection is being created
\* the CancelledError passes the except Exception clause of acquire and
\* connection is still None in get_connection, so nothing is released; in
\* the block the finally clause of get_connection releases the connection
Cancel(t) ==
    /\ ops[t].pc \in {"waiting", "connecting"} \/ InBlock(ops[t].pc)
    /\ IF ops[t].pc = "waiting"
       THEN /\ semaphore' = [semaphore EXCEPT
                                !.waiters = SelectSeq(@, LAMBDA w : w # t)]
            /\ UNCHANGED connections
       ELSE IF ops[t].pc = "connecting"
            THEN UNCHANGED <<semaphore, connections>>
            ELSE Released(t)
    /\ ops' = [ops EXCEPT ![t] = [@ EXCEPT !.pc = "cancelled"]]
    /\ event' = NoEvent
    /\ UNCHANGED <<pool_frame, opened, db_lock, pending, files, next_id>>

\* get_file, lines 144-161: the SELECT; a miss returns None
Select(t) ==
    /\ ops[t].pc = "select"
    /\ LET rows == {r \in View(ops[t].connection) : r.file_path = ops[t].call.file_path}
       IN  IF rows = {}
           THEN /\ Released(t)
                /\ ops' = [ops EXCEPT ![t] = [@ EXCEPT !.pc = "done"]]
           ELSE /\ ops' = [ops EXCEPT ![t] = [@ EXCEPT !.pc = "execute",
                                     !.file_data = <<CHOOSE r \in rows : TRUE>>]]
                /\ UNCHANGED <<semaphore, connections>>
    /\ event' = NoEvent
    /\ UNCHANGED <<pool_frame, opened, db_lock, pending, files, next_id>>

\* the rows after the UPDATE, INSERT or DELETE statement of a call, run on
\* rows at instant t; the UPDATE computes access_count + 1 in the database
UpdateStale(op, rows, t) ==
    {IF r.file_path = op.call.file_path
     THEN [r EXCEPT !.access_count = IF op.file_data = NULL THEN @ + 1
                                     ELSE op.file_data[1].access_count + 1,
                    !.last_accessed = <<t>>]
     ELSE r : r \in rows}
Update(op, rows, t) ==
    {IF r.file_path = op.call.file_path
     THEN [r EXCEPT !.access_count = @ + 1, !.last_accessed = <<t>>]
     ELSE r : r \in rows}
Statement(op, rows, t) ==
    CASE op.call.kind \in {"get_file", "update_file_access"} -> Update(op, rows, t)
      [] op.call.kind = "add_new_file" ->
            rows \cup {[id |-> next_id, rid |-> 0, file_path |-> op.call.file_path,
                        storage_path |-> StoragePath(op.call.file_path, 0),
                        file_name |-> [stem |-> "a", ext |-> ".png"], file_size |-> 1,
                        access_count |-> 0, last_accessed |-> NULL,
                        expires_at |-> NULL, uploaded_at |-> import_time,
                        swept |-> FALSE]}
      [] OTHER -> {r \in rows : ~Expired(r, t)}

\* conn.execute of the writing statement: the connection's transaction
\* begins and takes the write lock; an INSERT of a file_path that exists
\* raises IntegrityError with the transaction left open, and the exception
\* leaves the block of get_connection
Execute(t) ==
    /\ ops[t].pc = "execute"
    /\ db_lock \in {0, ops[t].connection}
    /\ db_lock' = ops[t].connection
    /\ LET op == ops[t]
           rows == View(op.connection)
           duplicate == /\ op.call.kind = "add_new_file"
                        /\ \E r \in rows : r.file_path = op.call.file_path
       IN  /\ IF duplicate
              THEN /\ pending' = rows
                   /\ Released(t)
                   /\ ops' = [ops EXCEPT ![t] = [@ EXCEPT !.pc = "failed"]]
                   /\ UNCHANGED next_id
              ELSE /\ pending' = Statement(op, rows, now)
                   /\ ops' = [ops EXCEPT ![t] = [@ EXCEPT !.pc = "commit"]]
                   /\ next_id' = IF op.call.kind = "add_new_file"
                                 THEN next_id + 1 ELSE next_id
                   /\ UNCHANGED <<semaphore, connections>>
           /\ event' = [kind |-> "pool", step |-> "execute", task |-> t,
                        call |-> op.call, before |-> rows,
                        raised |-> duplicate,
                        rowcount |-> Cardinality(rows \ Statement(op, rows, now))]
    /\ UNCHANGED <<pool_frame, opened, files>>

\* the write lock is held by the transaction of another connection until
\* the busy timeout ends: OperationalError (database is locked)
Busy(t) ==
    /\ ops[t].pc = "execute"
    /\ db_lock \notin {0, ops[t].connection}
    /\ Released(t)
    /\ ops' = [ops EXCEPT ![t] = [@ EXCEPT !.pc = "failed"]]
    /\ event' = NoEvent
    /\ UNCHANGED <<pool_frame, opened, db_lock, pending, files, next_id>>

\* conn.commit(), the return, and the release at the end of the block
Commit(t) ==
    /\ ops[t].pc = "commit"
    /\ IF db_lock = ops[t].connection
       THEN files' = pending /\ db_lock' = 0
       ELSE UNCHANGED <<files, db_lock>>
    /\ Released(t)
    /\ ops' = [ops EXCEPT ![t] = [@ EXCEPT !.pc = "done"]]
    /\ event' = NoEvent
    /\ UNCHANGED <<pool_frame, opened, pending, next_id>>

NextPool ==
    \/ \E t \in PoolTasks, call \in DbCalls : Acquire(t, call)
    \/ \E t \in PoolTasks : Granted(t)
    \/ \E t \in PoolTasks, ok \in BOOLEAN : Connected(t, ok)
    \/ \E t \in PoolTasks : Cancel(t)
    \/ \E t \in PoolTasks : Select(t)
    \/ \E t \in PoolTasks : Execute(t)
    \/ \E t \in PoolTasks : Busy(t)
    \/ \E t \in PoolTasks : Commit(t)

----------------------------------------------------------------------------
(* modules/functions.py: fetch_date, and the callers' use of its result *)

\* the values an expires_at column can hold that are truthy: a text in the
\* ISO-8601 form, a text that only the pattern "%Y-%m-%d %H:%M:%S" matches, a
\* text that matches neither, and a value that is no text; instant is the
\* instant a parseable text denotes
DateValues ==
    [form : {"iso", "fallback"}, instant : 0..MaxTime]
    \cup {[form |-> "neither", instant |-> 0], [form |-> "nontext", instant |-> 0]}

\* datetime.fromisoformat(date_str)
fromisoformat(x) ==
    CASE x.form = "iso" -> [tag |-> "value", instant |-> x.instant]
      [] x.form = "nontext" -> [tag |-> "TypeError", instant |-> 0]
      [] OTHER -> [tag |-> "ValueError", instant |-> 0]

\* datetime.strptime(date_str, "%Y-%m-%d %H:%M:%S")
strptime(x) ==
    CASE x.form = "fallback" -> [tag |-> "value", instant |-> x.instant]
      [] x.form = "nontext" -> [tag |-> "TypeError", instant |-> 0]
      [] OTHER -> [tag |-> "ValueError", instant |-> 0]

\* lines 13-19: the except ValueError clause runs strptime, and an exception
\* raised inside an except clause is not caught by the except Exception
\* clause of the same try statement; that clause returns None for the other
\* exceptions of fromisoformat
fetch_date(x) ==
    LET first == fromisoformat(x)
    IN  CASE first.tag = "value" -> first
          [] first.tag = "ValueError" -> strptime(x)
          [] OTHER -> [tag |-> "None", instant |-> 0]

\* the callers: serve_file (view, download), delete_file, compress_file and
\* auto_delete_expired_file_task
DateCallers == {"view", "download", "delete", "compress", "task"}

\* file_data.get("expires_at") and fetch_date(...) < datetime.now(utc), resp.
\* expires_at - datetime.now(utc) in the task: an exception of fetch_date
\* goes through the caller, and None supports neither "<" nor "-"
ExpiryCheck(expires_at, t) ==
    IF expires_at = NULL THEN "no expiry"
    ELSE LET d == fetch_date(expires_at[1])
         IN  CASE d.tag = "value" -> IF d.instant < t THEN "expired" ELSE "not expired"
               [] d.tag = "None" -> "TypeError"
               [] OTHER -> d.tag

\* a caller reads expires_at of a record and checks it
DateCheck(caller, expires_at) ==
    /\ event' = [kind |-> "date", caller |-> caller, expires_at |-> expires_at,
                 fetched |-> IF expires_at = NULL THEN [tag |-> "not called", instant |-> 0]
                             ELSE fetch_date(expires_at[1]),
                 outcome |-> ExpiryCheck(expires_at, now)]
    /\ UNCHANGED <<rl_vars, auth_vars, pool_vars, compress_tasks, now, import_time, disk, files,
                   next_id, uuids_drawn, handlers, tasks, access_tasks, n_requests,
                   n_restarts, deleted_paths>>

NextDate ==
    \/ \E caller \in DateCallers, expires_at \in {NULL} \cup {<<x>> : x \in DateValues} :
          DateCheck(caller, expires_at)
    \/ Tick

----------------------------------------------------------------------------
(* routes/compression.py: compress_file and create_image_compression_task *)

\* the HTTPException compress_file raises at lines 148-152 (200: none)
CompressGuard(file_data, t) ==
    IF file_data = NULL THEN 404
    ELSE IF Expired(file_data[1], t) THEN 410
    ELSE 200

\* lines 179-181: "except Exception" around the whole body catches every
\* exception raised in it, HTTPException included, and returns
\* JSONResponse(status_code=500, content={"message": ...})
OuterExcept(raised) == [status |-> 500, body |-> "message"]

\* what await request.json() and the conversions of lines 157-160 meet: usable
\* parameters, a value int() rejects with ValueError, or a body that is not
\* a JSON object
JsonBodies == {"params", "bad_number", "not_json"}

CompressResponse(h, resp, raised) ==
    [kind |-> "compress", rid |-> h.rid, status |-> resp.status,
     body |-> resp.body, raised |-> raised, file_path |-> h.file_path,
     file_data |-> h.file_data]

\* line 147: file_data = await files_db.get_file(file_path=file_path)
CompressBegin(file_path) ==
    /\ CanAccept
    /\ handlers' = handlers \cup
         {[rid |-> n_requests + 1, kind |-> "compress", pc |-> "check",
           file_path |-> file_path, file_data |-> SelectByPath(file_path)]}
    /\ files' = AfterGetFile(file_path)
    /\ n_requests' = n_requests + 1
    /\ event' = NoEvent
    /\ UNCHANGED <<rl_vars, auth_vars, pool_vars, compress_tasks, now, import_time, disk,
                   next_id, uuids_drawn, tasks, access_tasks, n_restarts,
                   deleted_paths>>

\* lines 148-154: the two checks; then the handler waits for request.json()
CompressCheck(h) ==
    /\ h.kind = "compress" /\ h.pc = "check"
    /\ LET raised == CompressGuard(h.file_data, now)
       IN  IF raised = 200
           THEN /\ handlers' = Replace(h, [h EXCEPT !.pc = "json"])
                /\ event' = NoEvent
           ELSE /\ handlers' = handlers \ {h}
                /\ event' = CompressResponse(h, OuterExcept(raised), raised)
    /\ UNCHANGED <<rl_vars, auth_vars, pool_vars, compress_tasks, now, import_time, disk, files,
                   next_id, uuids_drawn, tasks, access_tasks, n_requests,
                   n_restarts, deleted_paths>>

\* lines 154-173: the body arrives; on usable parameters the task is
\* created and the handler awaits it (await asyncio.create_task(...))
CompressJson(h, json) ==
    /\ h.kind = "compress" /\ h.pc = "json"
    /\ IF json = "params"
       THEN /\ compress_tasks' = compress_tasks \cup
                 {[rid |-> h.rid, storage_path |-> h.file_data[1].storage_path,
                   pc |-> "read"]}
            /\ handlers' = Replace(h, [h EXCEPT !.pc = "await"])
            /\ event' = NoEvent
       ELSE /\ handlers' = handlers \ {h}
            /\ event' = IF json = "bad_number"
                        THEN CompressResponse(h, [status |-> 400, body |-> "message"], 200)
                        ELSE CompressResponse(h, OuterExcept(500), 500)
            /\ UNCHANGED compress_tasks
    /\ UNCHANGED <<rl_vars, auth_vars, pool_vars, now, import_time, disk, files, next_id,
                   uuids_drawn, tasks, access_tasks, n_requests, n_restarts,
                   deleted_paths>>

TaskEnded(t, result) == [kind |-> "ctask", rid |-> t.rid, result |-> result]

\* lines 127-128: aiofiles.open(storage_path, "rb") and read; a missing file
\* raises, which line 141 catches and logs: the task ends
CompressTaskRead(t) ==
    /\ t.pc = "read"
    /\ IF Exists(t.storage_path)
       THEN /\ compress_tasks' = (compress_tasks \ {t}) \cup {[t EXCEPT !.pc = "encode"]}
            /\ event' = NoEvent
       ELSE /\ compress_tasks' = compress_tasks \ {t}
            /\ event' = TaskEnded(t, "error")
    /\ UNCHANGED <<rl_vars, auth_vars, pool_vars, now, import_time, disk, files, next_id,
                   uuids_drawn, handlers, tasks, access_tasks, n_requests,
                   n_restarts, deleted_paths>>

\* lines 129-135: compress_image_bytes in a thread; bytes that are no image
\* raise, which line 141 catches and logs: the task ends
CompressTaskEncode(t, ok) ==
    /\ t.pc = "encode"
    /\ IF ok
       THEN /\ compress_tasks' = (compress_tasks \ {t}) \cup {[t EXCEPT !.pc = "write"]}
            /\ event' = NoEvent
       ELSE /\ compress_tasks' = compress_tasks \ {t}
            /\ event' = TaskEnded(t, "error")
    /\ UNCHANGED <<rl_vars, auth_vars, pool_vars, now, import_time, disk, files, next_id,
                   uuids_drawn, handlers, tasks, access_tasks, n_requests,
                   n_restarts, deleted_paths>>

\* replace_file: aiofiles.open(storage_path, "wb") truncates the file, or
\* creates it when it is gone, and the new bytes are written (their length
\* is one unit)
Replaced(path, rid) ==
    IF Exists(path)
    THEN {IF f.path = path THEN [f EXCEPT !.size = 1] ELSE f : f \in disk}
    ELSE disk \cup {[path |-> path, owner |-> rid, size |-> 1]}

\* lines 136-140: replace_file, then the task ends
CompressTaskWriteResized(t) ==
    /\ t.pc = "write"
    /\ disk' = Replaced(t.storage_path, t.rid)
    /\ files' = {IF r.storage_path = t.storage_path
                 THEN [r EXCEPT !.file_size = 1] ELSE r : r \in files}
    /\ compress_tasks' = compress_tasks \ {t}
    /\ event' = TaskEnded(t, "done")
    /\ UNCHANGED <<rl_vars, auth_vars, pool_vars, now, import_time, next_id,
                   uuids_drawn, handlers, tasks, access_tasks, n_requests,
                   n_restarts, deleted_paths>>
CompressTaskWrite(t) ==
    /\ t.pc = "write"
    /\ disk' = Replaced(t.storage_path, t.rid)
    /\ compress_tasks' = compress_tasks \ {t}
    /\ event' = TaskEnded(t, "done")
    /\ UNCHANGED <<rl_vars, auth_vars, pool_vars, now, import_time, files, next_id,
                   uuids_drawn, handlers, tasks, access_tasks, n_requests,
                   n_restarts, deleted_paths>>

\* lines 166-178: the awaited task has ended (an error inside it was caught
\* there); the handler returns {"message": "File compressed successfully"}
CompressRespond(h) ==
    /\ h.kind = "compress" /\ h.pc = "await"
    /\ ~\E t \in compress_tasks : t.rid = h.rid
    /\ handlers' = handlers \ {h}
    /\ event' = CompressResponse(h, [status |-> 200, body |-> "message"], 200)
    /\ UNCHANGED <<rl_vars, auth_vars, pool_vars, compress_tasks, now, import_time, disk, files,
                   next_id, uuids_drawn, tasks, access_tasks, n_requests,
                   n_restarts, deleted_paths>>

\* The uploads, the compress requests, the admin deletes, the expiry tasks,
\* time and restarts, with at most two requests in progress at a time.
NextCompress ==
    \/ /\ Cardinality(handlers) < 2
       /\ \E filename \in Filenames, expiry_days \in ExpiryDays, body \in Bodies,
             u \in uuid4 : UploadBegin(filename, expiry_days, body, u)
    \/ \E h \in handlers : UploadRead(h)
    \/ \E h \in handlers : UploadEOF(h)
    \/ \E h \in handlers : UploadInsert(h)
    \/ \E h \in handlers : UploadRespond(h)
    \/ /\ Cardinality(handlers) < 2
       /\ \E file_path \in FilePaths : CompressBegin(file_path)
    \/ \E h \in handlers : CompressCheck(h)
    \/ \E h \in handlers, json \in JsonBodies : CompressJson(h, json)
    \/ \E t \in compress_tasks : CompressTaskRead(t)
    \/ \E t \in compress_tasks, ok \in BOOLEAN : CompressTaskEncode(t, ok)
    \/ \E t \in compress_tasks : CompressTaskWrite(t)
    \/ \E h \in handlers : CompressRespond(h)
    \/ /\ Cardinality(handlers) < 2
       /\ \E file_path \in FilePaths : DeleteBegin(file_path)
    \/ \E h \in handlers : DeleteCheck(h)
    \/ \E h \in handlers : DeleteRow(h)
    \/ \E t \in tasks : TaskStart(t)
    \/ \E t \in tasks : TaskWake(t)
    \/ Restart
    \/ Tick

----------------------------------------------------------------------------
Next ==
    \/ \E filename \in Filenames, expiry_days \in ExpiryDays, body \in Bodies,
          u \in uuid4 : UploadBegin(filename, expiry_days, body, u)
    \/ \E h \in handlers : UploadRead(h)
    \/ \E h \in handlers : UploadEOF(h)
    \/ \E h \in handlers : UploadInsert(h)
    \/ \E h \in handlers : UploadRespond(h)
    \/ \E file_path \in FilePaths : ServeBegin(file_path)
    \/ \E h \in handlers : ServeCheck(h)
    \/ \E a \in access_tasks : UpdateFileAccess(a)
    \/ \E file_path \in FilePaths : DeleteBegin(file_path)
    \/ \E h \in handlers : DeleteCheck(h)
    \/ \E h \in handlers : DeleteRow(h)
    \/ \E t \in tasks : TaskStart(t)
    \/ \E t \in tasks : TaskWake(t)
    \/ Restart
    \/ Tick

FileIdle == FileInit

\* the parts of the state a specification does not use stay as constructed
RLIdle ==
    /\ times = 1 /\ seconds = 1
    /\ requests = [c \in Clients |-> <<>>]
    /\ current_time = 0
    /\ rl_log = <<>>
    /\ limiters = NoRequests

AuthIdle ==
    /\ authorization = NoHeader
    /\ auth_result = "pending"

PoolIdle == PoolInit

InitRL == RLInit /\ AuthIdle /\ FileIdle /\ PoolIdle
SpecRL == InitRL /\ [][RLNext]_vars

InitUploadRL == UploadRLInit /\ AuthIdle /\ FileIdle /\ PoolIdle
SpecUploadRL == InitUploadRL /\ [][UploadRLNext]_vars

InitGroups == RLIdle /\ AuthIdle /\ FileIdle /\ PoolIdle
SpecGroups == InitGroups /\ [][GroupsNext]_vars

InitAuth == AuthInit /\ RLIdle /\ FileIdle /\ PoolIdle
SpecAuth == InitAuth /\ [][AuthNext]_vars

Init == FileInit /\ RLIdle /\ AuthIdle /\ PoolIdle
Spec == Init /\ [][Next]_vars
SpecCompress == Init /\ [][NextCompress]_vars

\* The uploads alone, with a database insert that can fail.
NextUploadErr ==
    \/ \E filename \in Filenames, expiry_days \in ExpiryDays, body \in Bodies,
          u \in uuid4 : UploadBegin(filename, expiry_days, body, u)
    \/ \E h \in handlers : UploadRead(h)
    \/ \E h \in handlers : UploadEOF(h)
    \/ \E h \in handlers : UploadInsert(h)
    \/ \E h \in handlers : UploadInsertRaises(h)
    \/ \E h \in handlers : UploadRespond(h)
    \/ Tick
SpecUploadErr == Init /\ [][NextUploadErr]_vars

\* Concurrent uploads whose safe names may coincide: uuid.uuid4() returns a
\* value drawn before or a new one, so the preferred path can exist.
NextUploads ==
    \/ \E filename \in Filenames, expiry_days \in ExpiryDays, body \in Bodies,
          u \in 1..(uuids_drawn + 1) : UploadBegin(filename, expiry_days, body, u)
    \/ \E h \in handlers : UploadRead(h)
    \/ \E h \in handlers : UploadEOF(h)
    \/ \E h \in handlers : UploadInsert(h)
    \/ \E h \in handlers : UploadRespond(h)
SpecUploads == Init /\ [][NextUploads]_vars
SpecMulti == Init /\ [][NextMulti]_vars
SpecErr == Init /\ [][NextErr]_vars
SpecDate == Init /\ [][NextDate]_vars

\* the database operations of concurrent tasks on a table of two records,
\* at any instant
InitPool ==
    /\ PoolInit /\ RLIdle /\ AuthIdle
    /\ now \in 1..MaxTime
    /\ import_time = 0
    /\ files = PoolTable
    /\ disk = {[path |-> r.storage_path, owner |-> r.rid, size |-> 1] : r \in PoolTable}
    /\ next_id = 3
    /\ uuids_drawn = 2
    /\ handlers = {} /\ tasks = {} /\ access_tasks = {} /\ compress_tasks = {}
    /\ event = NoEvent
    /\ n_requests = 2 /\ n_restarts = 0
    /\ deleted_paths = {}
SpecPool == InitPool /\ [][NextPool]_vars

\* the pool under concurrent get_file calls on one stored file, with the event
\* loop's scheduling: a task that can run is eventually run, so a granted
\* permit is taken, a connect attempt ends, and a block runs to its end;
\* cancellation comes from outside and is not owed to any task
NextPoolLive ==
    \/ \E t \in PoolTasks : Acquire(t, [kind |-> "get_file", file_path |-> PoolPath(1)])
    \/ \E t \in PoolTasks : Granted(t)
    \/ \E t \in PoolTasks, ok \in BOOLEAN : Connected(t, ok)
    \/ \E t \in PoolTasks : Cancel(t)
    \/ \E t \in PoolTasks : Select(t)
    \/ \E t \in PoolTasks : Execute(t)
    \/ \E t \in PoolTasks : Busy(t)
    \/ \E t \in PoolTasks : Commit(t)

PoolFairness ==
    \A t \in PoolTasks :
        /\ WF_vars(Granted(t))
        /\ WF_vars(\E ok \in BOOLEAN : Connected(t, ok))
        /\ WF_vars(Select(t))
        /\ WF_vars(Execute(t) \/ Busy(t))
        /\ WF_vars(Commit(t))

SpecPoolLive == InitPool /\ [][NextPoolLive]_vars /\ PoolFairness

\* The uploads, the admin deletes, the deletion tasks, time and restarts,
\* with the requests arriving one at a time: a request is received when no
\* handler is in flight.  Deletion tasks, time and restarts interleave freely
\* with the handler in flight.
NextLive ==
    \/ /\ handlers = {}
       /\ \E filename \in Filenames, expiry_days \in ExpiryDays, body \in Bodies,
             u \in uuid4 : UploadBegin(filename, expiry_days, body, u)
    \/ \E h \in handlers : UploadRead(h)
    \/ \E h \in handlers : UploadEOF(h)
    \/ \E h \in handlers : UploadInsert(h)
    \/ \E h \in handlers : UploadRespond(h)
    \/ /\ handlers = {}
       /\ \E file_path \in FilePaths : DeleteBegin(file_path)
    \/ \E h \in handlers : DeleteCheck(h)
    \/ \E h \in handlers : DeleteRow(h)
    \/ \E t \in tasks : TaskStart(t)
    \/ \E t \in tasks : TaskWake(t)
    \/ Restart
    \/ Tick

\* The event loop runs every task and handler that is ready: a deletion task
\* that can take a step takes it, and a handler whose insert has returned
\* goes on to create the task and respond.  Nothing obliges time to pass, a
\* request to arrive or the process to restart.
TaskStep == \E t \in tasks : TaskStart(t) \/ TaskWake(t)
RespondStep == \E h \in handlers : UploadRespond(h)
SpecLive == Init /\ [][NextLive]_vars /\ WF_vars(TaskStep) /\ WF_vars(RespondStep)

----------------------------------------------------------------------------
(***************************************************************************)
(* Properties of the rate limiter (checked under SpecRL)                   *)
(***************************************************************************)
LogIdx == 1..Len(rl_log)

\* the calls of client c so far, oldest first
CallsOf(c) == SelectSeq(rl_log, LAMBDA e : e.client = c)

\* the admitted calls of the same client before call i whose timestamps are
\* strictly newer than rl_log[i].t - seconds
AdmittedInWindowBefore(i) ==
    {j \in 1..(i - 1) : /\ rl_log[j].client = rl_log[i].client
                        /\ rl_log[j].status = 200
                        /\ rl_log[j].t > rl_log[i].t - seconds}

\* the admitted calls of client c with a timestamp in (t - seconds, t]
AdmittedInWindow(c, t) ==
    {j \in LogIdx : /\ rl_log[j].client = c
                    /\ rl_log[j].status = 200
                    /\ rl_log[j].t > t - seconds
                    /\ rl_log[j].t <= t}

RECURSIVE TimesOf(_)
TimesOf(log) == IF log = <<>> THEN <<>> ELSE <<Head(log).t>> \o TimesOf(Tail(log))

\* what the queue of client c must hold: the timestamps of its admitted calls
\* that are strictly newer than (time of its last call) - seconds
ExpectedQueue(c) ==
    LET calls == CallsOf(c)
    IN  IF calls = <<>> THEN <<>>
        ELSE LET last == calls[Len(calls)].t
             IN  TimesOf(SelectSeq(calls, LAMBDA e : e.status = 200 /\ e.t > last - seconds))

\* C1: a call at time t is rejected (429) exactly when times previously
\* admitted calls of that client have timestamps strictly newer than
\* t - seconds; an admitted call is recorded and a rejected one is not, so the
\* queue of a client holds exactly its admitted timestamps of the current
\* window, at most times of them, and at most times calls are admitted in any
\* window (t - seconds, t].
C1_RejectedIffWindowFull ==
    /\ \A i \in LogIdx :
          /\ Cardinality(AdmittedInWindowBefore(i)) <= times
          /\ (rl_log[i].status = 429) <=> (Cardinality(AdmittedInWindowBefore(i)) = times)
          /\ rl_log[i].status \in {200, 429}
    /\ \A c \in Clients :
          /\ Len(requests[c]) <= times
          /\ requests[c] = ExpectedQueue(c)
          /\ \A t \in 0..current_time : Cardinality(AdmittedInWindow(c, t)) <= times

\* C1 witness: with times >= 2 a client was rejected and later admitted again
C1_Witness ==
    /\ times >= 2
    /\ \E i, j \in LogIdx :
          /\ i < j
          /\ rl_log[i].client = rl_log[j].client
          /\ rl_log[i].status = 429
          /\ rl_log[j].status = 200

\* C2: the (times+1)-th call of a client less than seconds after its 1st is
\* rejected (for times = 3, seconds = 5: the 4th call less than 5 seconds after
\* the 1st), and a call made when the client has sent nothing for seconds
\* seconds (or has never sent anything) is admitted, whatever came before.
C2_RejectThenRecover ==
    \A c \in Clients :
        LET calls == CallsOf(c)
        IN  /\ (Len(calls) > times /\ calls[times + 1].t - calls[1].t < seconds)
                  => calls[times + 1].status = 429
            /\ \A k \in 1..Len(calls) :
                  (k = 1 \/ calls[k].t - calls[k - 1].t >= seconds)
                      => calls[k].status = 200

\* C2 witness: times = 3, seconds = 5; the 4th call within the window of the
\* 1st was rejected and a call 5 seconds after the client's last one admitted
C2_Witness ==
    /\ times = 3
    /\ seconds = 5
    /\ \E c \in Clients :
          LET calls == CallsOf(c)
          IN  /\ Len(calls) >= 5
              /\ calls[4].t - calls[1].t < 5
              /\ calls[4].status = 429
              /\ calls[5].t - calls[4].t >= 5
              /\ calls[5].status = 200

(***************************************************************************)
(* Properties of authorize_admin (checked under SpecAuth)                  *)
(***************************************************************************)
BearerKey == [present |-> TRUE, value |-> <<"Bearer", " ", "key">>]
RawKey    == [present |-> TRUE, value |-> <<"key">>]

\* C3: authorize_admin ends in one of exactly three outcomes for every header
\* value: 401 when the header is absent or empty, otherwise 403 or success;
\* "Bearer <master_key>" and the raw master key succeed.
C3_ThreeOutcomes ==
    auth_result # "pending" =>
        /\ auth_result \in {"401", "403", "ok"}
        /\ (auth_result = "401") <=> (~authorization.present \/ authorization.value = <<>>)
        /\ authorization \in {BearerKey, RawKey} => auth_result = "ok"

(***************************************************************************)
(* Properties of the file service (checked under Spec).  event describes   *)
(* the step that led to the current state, so a property of a response is  *)
(* stated about the state in which the response is given.                  *)
(***************************************************************************)
IsExpired(file_data) ==
    file_data.expires_at # NULL /\ file_data.expires_at[1] < now

BytesAt(path) == \E f \in disk : f.path = path

\* C4: a view or download answers 404 when no record was found, else 410
\* when expires_at is set and earlier than now (whether or not the bytes are
\* there), else 404 when no bytes are at storage_path, else serves the file;
\* a file whose expires_at has passed is never served.
C4_ServePrecedence ==
    event.kind = "serve" =>
        LET fd == event.file_data
        IN  /\ fd = NULL => event.status = 404
            /\ (fd # NULL /\ IsExpired(fd[1])) => event.status = 410
            /\ (fd # NULL /\ ~IsExpired(fd[1]) /\ ~BytesAt(fd[1].storage_path))
                  => event.status = 404
            /\ (fd # NULL /\ ~IsExpired(fd[1]) /\ BytesAt(fd[1].storage_path))
                  => event.status = 200
            /\ event.status = 200 =>
                  \A r \in files : r.file_path = event.file_path =>
                      ~(r.expires_at # NULL /\ r.expires_at[1] < now)

\* C4 witness: 410 for an expired record whose row and bytes both still exist
C4_Witness ==
    /\ event.kind = "serve"
    /\ event.status = 410
    /\ \E r \in files : r.file_path = event.file_path
    /\ BytesAt(event.file_data[1].storage_path)

\* C5: once an admin DELETE has deleted the row of a record, the bytes of
\* that record are gone (bytes first, row second: there is no state with the
\* row deleted and the bytes still there) and no row is left; a successful
\* DELETE response comes with the deletion of the row; and every view or
\* download that starts after it, before the path is uploaded again, gets 404.
C5_DeleteThenNotFound ==
    /\ \A d \in deleted_paths :
          /\ ~\E f \in disk : f.owner = d.rid
          /\ ~\E r \in files : r.file_path = d.file_path
    /\ (event.kind = "delete" /\ event.status = 200) =>
          /\ \E d \in deleted_paths : d.file_path = event.file_path
          /\ ~\E r \in files : r.file_path = event.file_path
    /\ \A h \in handlers :
          (h.kind = "delete" /\ h.pc = "del_row") =>
              ~\E f \in disk : f.owner = h.file_data[1].rid
    /\ (event.kind = "serve" /\ event.after_delete) => event.status = 404

\* C5 witness: a view of a deleted path, begun after the DELETE, answered 404
C5_Witness ==
    /\ event.kind = "serve"
    /\ event.after_delete
    /\ event.status = 404
    /\ \E d \in deleted_paths : d.file_path = event.file_path

SumTo(lens, k) == Sum(SubSeq(lens, 1, k))

\* C6: an upload is answered 413 exactly at the first chunk with which the
\* size received exceeds the limit, and then no file is at its storage path
\* and no record of it exists; an upload of at most the limit is not
\* answered 413, and no upload above the limit is accepted.
C6_TooLargeAborted ==
    /\ event.kind = "upload" =>
          /\ event.status = 413 <=>
                /\ event.chunks >= 1
                /\ SumTo(event.body, event.chunks) > file_size_limit
                /\ SumTo(event.body, event.chunks - 1) <= file_size_limit
          /\ event.status = 413 =>
                /\ ~BytesAt(event.storage_path)
                /\ ~\E f \in disk : f.owner = event.rid
                /\ ~\E r \in files : r.rid = event.rid
                /\ ~\E h \in handlers : h.rid = event.rid
          /\ Sum(event.body) <= file_size_limit => event.status # 413
          /\ event.status = 200 => Sum(event.body) <= file_size_limit
    /\ \A h \in handlers :
          h.kind = "upload" => SumTo(h.body, h.chunks) <= file_size_limit

\* C6 witness: a 413 at the second chunk, after a partial file was written
C6_Witness ==
    /\ event.kind = "upload"
    /\ event.status = 413
    /\ event.chunks = 2

\* C7: no two records have the same file_path; every successful upload
\* has created exactly one record, whose file_path no other record has; and
\* uploads that carry the same original filename do not fail on each other's
\* name.
C7_FilePathUnique ==
    /\ \A r1, r2 \in files : r1.file_path = r2.file_path => r1 = r2
    /\ event.kind = "insert" =>
          \E r \in files :
              /\ r.rid = event.rid
              /\ r.file_path = event.file_path
              /\ \A r2 \in files :
                    (r2.rid = event.rid \/ r2.file_path = r.file_path) => r2 = r
    /\ \A h \in handlers :
          (h.kind = "upload" /\ h.pc = "respond") => h.id # 0
    /\ (event.kind = "upload" /\ event.status = 200) => event.id # 0
    /\ event.kind = "upload" => event.status \in {200, 413}

\* C7 witness: an upload has created a record while a record with the same
\* original filename is in the table
C7_Witness ==
    /\ event.kind = "insert"
    /\ \E r1, r2 \in files :
          /\ r1.rid = event.rid
          /\ r2 # r1
          /\ r2.file_name = r1.file_name

\* C8: for a successful upload the file_size of the response and of the
\* record both equal the sum of the lengths of the chunks received, and so
\* does the size of the file this upload wrote while it is at storage_path.
C8_FileSizeIsBytesReceived ==
    /\ (event.kind = "upload" /\ event.status = 200) =>
          /\ event.chunks = Len(event.body)
          /\ event.file_size = Sum(event.body)
          /\ \A r \in files : r.rid = event.rid => r.file_size = Sum(event.body)
    /\ \A r \in files : \A f \in disk :
          f.owner = r.rid => (f.path = r.storage_path /\ f.size = r.file_size)
    /\ \A h \in handlers : \A f \in disk :
          (h.kind = "upload" /\ f.owner = h.rid) =>
              (f.path = h.storage_path /\ f.size = SumTo(h.body, h.chunks)
                 /\ h.file_size = f.size)

\* C8 witness: a successful upload of two chunks whose file is on disk
C8_Witness ==
    /\ event.kind = "upload"
    /\ event.status = 200
    /\ Len(event.body) = 2
    /\ \E f \in disk : f.owner = event.rid /\ f.size = file_size_limit

\* C9: an expiry deletion task, armed by upload or at startup, removes bytes
\* only at an instant that is not earlier than the expires_at of its record.
C9_NoEarlyRemoval ==
    /\ (event.kind = "task" /\ event.result # "returned") =>
          /\ event.expires_at # NULL
          /\ now >= event.expires_at[1]
    /\ \A t \in tasks :
          t.pc = "sleep" => t.wake_at[1] >= t.file_data[1].expires_at[1]

\* C9 witness: a task armed at startup has removed the bytes of its record
C9_Witness ==
    /\ event.kind = "task"
    /\ event.result = "removed"
    /\ event.armed = "startup"
    /\ now >= event.expires_at[1]

(***************************************************************************)
(* Expirations and restarts (checked under SpecLive)                       *)
(***************************************************************************)
OwnBytes(rid) == \E f \in disk : f.owner = rid

Armed(r) ==
    \/ \E t \in tasks : t.id = r.id
    \/ \E h \in handlers : h.kind = "upload" /\ h.pc = "respond" /\ h.id = r.id

ExpiryReached(rid) ==
    \E r \in files : r.rid = rid /\ r.expires_at # NULL /\ r.expires_at[1] <= now

\* every record with expires_at set whose bytes are still stored has a deletion
\* task (or its upload is about to create one), in the run that created it and
\* after a restart; a sleeping task whose record's expires_at has been reached
\* is ready to remove the bytes: it does not wait
C10_ArmedInv ==
    /\ \A r \in files :
          (r.expires_at # NULL /\ OwnBytes(r.rid)) => Armed(r)
    /\ \A t \in tasks :
          (t.pc = "sleep" /\ t.file_data[1].expires_at[1] <= now)
              => t.wake_at[1] <= now

\* C10: expirations survive restarts: a record with expires_at set always has
\* a deletion task armed, at upload or at startup, while its bytes are
\* stored; once expires_at is reached the bytes are eventually removed; and a
\* task for a record that is already past expires_at removes them without
\* waiting.
C10_ExpirationsSurviveRestart ==
    /\ []C10_ArmedInv
    /\ \A rid \in 1..MaxRequests : ExpiryReached(rid) ~> ~OwnBytes(rid)

\* C10 witness: after a restart, a task armed at startup for a record whose
\* expires_at was already past has removed the bytes
C10_Witness ==
    /\ n_restarts >= 1
    /\ event.kind = "task"
    /\ event.result = "removed"
    /\ event.armed = "startup"
    /\ event.expires_at[1] < import_time

(***************************************************************************)
(* Access statistics (checked under Spec)                                  *)
(***************************************************************************)
\* the view whose access update has just run was a successful view during
\* which nothing else touched the catalogue: no handler or access task was in
\* progress when it arrived and no request has arrived since
ViewAlone ==
    /\ event.kind = "access"
    /\ event.quiet
    /\ n_requests = event.rid
    /\ handlers = {}
    /\ access_tasks = {}

\* C11: a successful view, with no other access to the file meanwhile, adds
\* exactly one to access_count (so that two such views add exactly 2) and
\* leaves last_accessed at the time of the view.
C11_OneCountPerView ==
    ViewAlone =>
        \A r \in files :
            r.file_path = event.file_path =>
                /\ r.access_count = event.before + 1
                /\ r.last_accessed = <<now>>

(***************************************************************************)
(* Compression requests (checked under SpecCompress)                       *)
(***************************************************************************)
\* C12: a compress request answers 404 when get_file found no record and
\* 410 when the record's expires_at is earlier than now, and in both cases
\* no re-encoding task of this request exists.
C12_CompressNotFoundGone ==
    event.kind = "compress" =>
        LET fd == event.file_data
        IN  /\ fd = NULL => event.status = 404
            /\ (fd # NULL /\ IsExpired(fd[1])) => event.status = 410
            /\ (fd = NULL \/ IsExpired(fd[1])) =>
                  ~\E t \in compress_tasks : t.rid = event.rid

\* C13: the compress handler does not wait for the re-encoding task: while
\* the task of a request is in progress, the handler of that request is no
\* longer in progress (it has responded), and the response of a request that
\* started a task is the success acknowledgment.
C13_CompressDetached ==
    /\ \A t \in compress_tasks : ~\E h \in handlers : h.rid = t.rid
    /\ (event.kind = "compress" /\ event.raised = 200 /\ event.status # 400)
          => event.status = 200


\* C14: a multi-upload with an empty list ends in 400; with k >= 1 files it
\* ends in 200 with one entry per file in the order of the list, processing
\* goes on after a file that failed, uploaded_count + failed_count = k and
\* uploaded_count is the number of files that were stored.
C14_MultiAggregate ==
    event.kind = "multi" =>
        LET k == Len(event.given)
        IN  IF k = 0
            THEN event.status = 400
            ELSE /\ event.status = 200
                 /\ Len(event.results) = k
                 /\ \A i \in 1..k : event.results[i].body = event.given[i]
                 /\ event.uploaded_count # NULL /\ event.failed_count # NULL
                 /\ event.uploaded_count[1] + event.failed_count[1] = k
                 /\ event.uploaded_count[1] =
                        Cardinality({i \in 1..k : event.results[i].status = 200})

\* C15: POST /api/upload/multiple has a limiter state of its own with N = 20,
\* W = 5 seconds: a request to it is rejected only when 20 requests of the
\* same client to it were admitted within the last 5 seconds, so requests to
\* /api/upload never cause its rejection.
C15_MultiUploadTier ==
    \A i \in 1..Len(rl_log) :
        (rl_log[i].endpoint = "/api/upload/multiple" /\ rl_log[i].status = 429) =>
            Cardinality({j \in 1..(i - 1) :
                            /\ rl_log[j].endpoint = "/api/upload/multiple"
                            /\ rl_log[j].client = rl_log[i].client
                            /\ rl_log[j].status = 200
                            /\ rl_log[j].t > rl_log[i].t - 5}) >= 20

\* C16: every error response to a request whose path begins with /api is a
\* JSON object with an error field and the status of the failure; every error
\* response to another path is an HTML error page with that status.
C16_ErrorBodies ==
    event.kind = "error" =>
        /\ event.response.status = event.case.status
        /\ IF StartsWithApi(event.case.path)
           THEN event.response.media = "json" /\ event.response.field = "error"
           ELSE event.response.media = "html"

(***************************************************************************)
(* Records whose bytes an expiry task has removed (checked under Spec)     *)
(***************************************************************************)
\* the record of a removal stays, and nothing is stored at its storage_path
SweptMissing == \A r \in files : r.swept => ~BytesAt(r.storage_path)

SweptStays ==
    \A r \in files : r.swept =>
        \E q \in files' : q.id = r.id /\ q.storage_path = r.storage_path /\ q.swept

\* C17 as stated: after an expiry deletion task has removed the bytes of a
\* record, the record still exists with storage_path pointing at the missing
\* file, and every later view or download of its path fails with 404.
C17_SweptNotFound ==
    /\ [](SweptMissing /\
          ((event.kind = "serve" /\ event.after_sweep) => event.status = 404))
    /\ [][SweptStays]_vars

\* C17: after an expiry deletion task has removed the bytes of a record, the
\* record still exists with storage_path pointing at the missing file, and
\* every later view or download of its path fails: with 410 when expires_at
\* is earlier than now, and with 404 (missing bytes) only at the instant
\* now = expires_at.
C17_SweptGone ==
    /\ [](SweptMissing /\
          ((event.kind = "serve" /\ event.after_sweep) =>
              LET fd == event.file_data
              IN  /\ fd # NULL
                  /\ ~BytesAt(fd[1].storage_path)
                  /\ \E r \in files : r.id = fd[1].id /\ r.swept
                  /\ IF IsExpired(fd[1])
                     THEN event.status = 410
                     ELSE event.status = 404 /\ now = fd[1].expires_at[1]))
    /\ [][SweptStays]_vars

\* C17 witness: a view of a record whose bytes the expiry task removed
\* earlier is answered 410, the row still being there
C17_Witness ==
    /\ event.kind = "serve"
    /\ event.after_sweep
    /\ event.status = 410
    /\ \E r \in files : r.file_path = event.file_path /\ r.swept
                            /\ ~BytesAt(r.storage_path)

(***************************************************************************)
(* Expiry of uploads (checked under Spec)                                  *)
(***************************************************************************)
\* C18: for every upload in which expiry_days is given, 0 included,
\* expires_at is the instant of the upload plus expiry_days days, the record
\* and the response carry it and a deletion task is scheduled; when
\* expiry_days is not given, expires_at is absent from the record and the
\* response and no deletion task is scheduled.
C18_ExpiryWhenGiven ==
    /\ event.kind = "expiry" =>
          IF event.expiry_days # NULL
          THEN event.expires_at = <<now + event.expiry_days[1]>>
          ELSE event.expires_at = NULL
    /\ (event.kind = "upload" /\ event.status = 200) =>
          /\ event.expiry_days # NULL <=> event.expires_at # NULL
          /\ \A r \in files : r.rid = event.rid => r.expires_at = event.expires_at
          /\ event.expiry_days # NULL <=> \E t \in tasks : t.id = event.id

(***************************************************************************)
(* fetch_date (checked under SpecDate)                                     *)
(***************************************************************************)
\* C19: fetch_date never raises: for a text that matches neither form, and
\* for any other parse failure, it returns an absent value, and its callers
\* treat an absent result as "no expiry" rather than failing.
C19_FetchDateTotal ==
    event.kind = "date" =>
        /\ event.fetched.tag \in {"value", "None", "not called"}
        /\ (event.expires_at # NULL /\ event.expires_at[1].form \in {"neither", "nontext"})
              => event.fetched.tag = "None"
        /\ event.fetched.tag = "None" => event.outcome = "no expiry"
        /\ event.outcome \in {"no expiry", "expired", "not expired"}

(***************************************************************************)
(* uploaded_at (checked under Spec)                                        *)
(***************************************************************************)
\* C20: a record created by add_new_file without an explicit uploaded_at, as
\* every upload creates it, has uploaded_at equal to the instant of that
\* call; so records never have an uploaded_at later than the present, and a
\* record created later than another has the later uploaded_at.
C20_UploadedAtIsCreation ==
    event.kind = "insert" =>
        \A r \in files :
            r.rid = event.rid =>
                /\ r.uploaded_at = now
                /\ \A q \in files : q.id < r.id => q.uploaded_at <= r.uploaded_at

(***************************************************************************)
(* Connection pool and database operations (checked under SpecPool)        *)
(***************************************************************************)
\* the tasks that hold a connection, and those that hold a permit
Holders == {t \in PoolTasks : InBlock(ops[t].pc)}
PermitHolders == {t \in PoolTasks : InBlock(ops[t].pc) \/ ops[t].pc = "connecting"}

\* C21: the connections checked out at once never exceed the capacity of
\* the pool, nor do the checked-out connections together with those of the
\* free list; no connection is held twice; and a connection is created only
\* when the free list is empty at acquisition.
C21_PoolBound ==
    /\ Cardinality(PermitHolders) <= MAX_CONNECTIONS
    /\ Cardinality(Holders) + Len(connections) <= MAX_CONNECTIONS
    /\ opened <= MAX_CONNECTIONS
    /\ \A t, u \in Holders : ops[t].connection = ops[u].connection => t = u
    /\ \A t \in Holders : \A i \in 1..Len(connections) :
          connections[i] # ops[t].connection
    /\ (event.kind = "pool" /\ event.step = "acquire") =>
          (event.creates <=> event.free = 0)

\* C21 witness: every permit is held with a connection, the last of them
\* taken from the free list by the acquisition that has just run
C21_Witness ==
    /\ Cardinality(Holders) = MAX_CONNECTIONS
    /\ opened = MAX_CONNECTIONS
    /\ connections = <<>>
    /\ event.kind = "pool" /\ event.step = "acquire" /\ ~event.creates

\* no database operation is in progress
PoolQuiet == \A t \in PoolTasks : ops[t].pc \in {"idle", "done", "failed", "cancelled"}

\* C22: on every way out of a block run under get_connection, and of a
\* failed or cancelled acquire, the connection and its permit are given back
\* exactly once: whenever no database operation is in progress the available
\* permits equal the capacity and every connection created is in the free
\* list, once.
C22_PermitConservation ==
    /\ semaphore.value + Cardinality(PermitHolders) = MAX_CONNECTIONS
    /\ PoolQuiet =>
          /\ semaphore.value = MAX_CONNECTIONS
          /\ Len(connections) = opened
          /\ \A i, j \in 1..Len(connections) :
                connections[i] = connections[j] => i = j

\* C23: an acquire on a saturated pool suspends, neither failing nor creating
\* a connection, and with fair scheduling every suspended acquirer eventually
\* obtains a connection (or is itself cancelled while it waits).
C23_SaturatedWaits ==
    /\ [](\A t \in PoolTasks :
             ops[t].pc = "waiting" => /\ ops[t].connection = 0
                                      /\ opened <= MAX_CONNECTIONS)
    /\ \A t \in PoolTasks :
          (ops[t].pc = "waiting") ~> (ops[t].pc # "waiting")

\* the calls that ended normally and counted an access of path
Accessed(path) ==
    {t \in PoolTasks : /\ ops[t].pc = "done"
                       /\ ops[t].call.kind \in {"get_file", "update_file_access"}
                       /\ ops[t].call.file_path = path}

\* C24: no access is lost: whatever the interleaving of concurrent get_file
\* and update_file_access calls on a stored file_path, its access_count is
\* higher than before by exactly the number of calls that have returned (no
\* call being cancelled); a get_file whose SELECT finds no row returns absent
\* and changes no row.
C24_NoLostUpdate ==
    /\ []((\A t \in PoolTasks : ops[t].pc # "cancelled") =>
             \A r \in files :
                r.file_path = PoolPath(1) =>
                   r.access_count = Cardinality(Accessed(PoolPath(1))))
    /\ [][\A t \in PoolTasks :
             (ops[t].pc = "select" /\ ops'[t].pc = "done") =>
                /\ files' = files
                /\ ops'[t].file_data = NULL
                /\ \A r \in View(ops[t].connection) :
                      r.file_path # ops[t].call.file_path]_vars
C24_Witness ==
    /\ opened = MAX_CONNECTIONS
    /\ Cardinality(Accessed(PoolPath(1))) = 2
    /\ \E r \in files : r.file_path = PoolPath(1) /\ r.access_count = 2
    /\ \E t \in PoolTasks :
          /\ ops[t].pc = "done" /\ ops[t].call.kind = "get_file"
          /\ ops[t].call.file_path = PoolPath(3) /\ ops[t].file_data = NULL

\* the connections in the free list
FreeConnections == {connections[i] : i \in 1..Len(connections)}

\* C25: add_new_file of a file_path that is already stored fails, changes no
\* row and adds none, and its connection goes back to the free list with no
\* transaction open; of a new file_path it adds exactly one row, with the
\* identity it returns.
C25_DuplicateInsert ==
    (event.kind = "pool" /\ event.step = "execute"
        /\ event.call.kind = "add_new_file") =>
       IF event.raised
       THEN /\ pending = event.before
            /\ ops[event.task].pc = "failed"
            /\ db_lock \notin FreeConnections
       ELSE /\ event.before \subseteq pending
            /\ Cardinality(pending \ event.before) = 1
            /\ \A r \in pending \ event.before :
                  r.file_path = event.call.file_path /\ r.id = next_id - 1

\* the rows whose expires_at is set and earlier than the instant t
Past(rows, t) == {r \in rows : r.expires_at # NULL /\ r.expires_at[1] < t}

\* C29: clear_expired_files removes exactly the rows whose expires_at is set
\* and earlier than now and returns their number; the rows without expires_at
\* or with expires_at not yet reached stay as they were.
C29_ClearExpired ==
    (event.kind = "pool" /\ event.step = "execute"
        /\ event.call.kind = "clear_expired_files") =>
       /\ pending = event.before \ Past(event.before, now)
       /\ event.rowcount = Cardinality(Past(event.before, now))
       /\ ~event.raised
C29_Witness ==
    /\ event.kind = "pool" /\ event.step = "execute"
    /\ event.call.kind = "clear_expired_files"
    /\ event.rowcount = 1
    /\ \E r \in pending : r.expires_at = NULL
    /\ \E r \in event.before \ pending : r.expires_at = <<1>> /\ now = 2

\* a delete request that passed its checks on the record before it expired
\* and has still to delete the row
DeleteAdmitted(r) ==
    \E h \in handlers : /\ h.kind = "delete" /\ h.pc = "del_row"
                        /\ h.file_data[1].rid = r.rid

\* C26: a DELETE on a record whose expires_at has passed is answered 410 and
\* removes neither the bytes nor the row; so the row of an expired record is
\* never removed by a request made after the expiry.
C26_ExpiredDeleteRefused ==
    /\ [][\A h \in handlers :
             (/\ h.kind = "delete" /\ h.pc = "check" /\ h.file_data # NULL
              /\ Expired(h.file_data[1], now)
              /\ h \notin handlers' /\ event'.kind # "restart") =>
                /\ event'.kind = "delete" /\ event'.rid = h.rid
                /\ event'.status = 410
                /\ disk' = disk /\ files' = files]_vars
    /\ [][\A r \in files :
             (Expired(r, now) /\ ~DeleteAdmitted(r)) =>
                \E q \in files' : q.rid = r.rid /\ q.file_path = r.file_path]_vars
C26_Witness ==
    /\ event.kind = "delete" /\ event.status = 410
    /\ \E r \in files : /\ r.file_path = event.file_path
                        /\ Expired(r, now)
                        /\ Exists(r.storage_path)

\* C27: when the removal of a file's bytes (admin DELETE or expiry task) and
\* a compression task on the same storage path interleave, the later one
\* finds the file missing: a compression task that reads after the removal
\* ends in error, and one whose overwrite comes after the removal does not
\* put bytes back at the path.
C27_LoserSeesMissing ==
    [][\A t \in compress_tasks :
          (~Exists(t.storage_path) /\ t \notin compress_tasks') =>
             \A f \in disk' : f.path # t.storage_path]_vars

\* a step of a compress request or of its task
CompressStep ==
    /\ \/ compress_tasks' # compress_tasks
       \/ {h \in handlers' : h.kind = "compress"} # {h \in handlers : h.kind = "compress"}
    /\ event'.kind # "restart"

\* the fields of a record that describe the stored file
Described(r) ==
    <<r.rid, r.id, r.file_path, r.storage_path, r.file_name, r.file_size,
      r.expires_at, r.uploaded_at>>

\* C28: a compress request and its task change only the bytes at the
\* record's storage_path: every record keeps its file_path, storage_path,
\* file_name, file_size and expires_at, no record is added or removed, and no
\* other path of the storage changes.
C28_CompressFrame ==
    [][CompressStep =>
          /\ {Described(r) : r \in files'} = {Described(r) : r \in files}
          /\ \A f \in (disk' \ disk) \cup (disk \ disk') :
                \E t \in compress_tasks : t.pc = "write" /\ f.path = t.storage_path]_vars
C28_Witness ==
    /\ event.kind = "ctask" /\ event.result = "done"
    /\ \E r \in files, f \in disk :
          /\ f.path = r.storage_path
          /\ f.size = 1 /\ r.file_size = 5120

\* the calls of client c to the routes of group g, in order
GroupCallsOf(g, c) == SelectSeq(rl_log, LAMBDA e : e.endpoint = g /\ e.client = c)

\* the answers a limiter of (N, W) with the queue q gives to calls at the
\* instants of log, when nothing else ever calls it
RECURSIVE Alone(_, _, _, _)
Alone(log, q, N, W) ==
    IF log = <<>> THEN <<>>
    ELSE LET request_times == PopExpired(q, Cutoff(Head(log).t, W))
         IN  IF Len(request_times) >= N
             THEN <<429>> \o Alone(Tail(log), request_times, N, W)
             ELSE <<200>> \o Alone(Tail(log),
                                   DequeAppend(request_times, Head(log).t, N), N, W)

RECURSIVE StatusesOf(_)
StatusesOf(log) ==
    IF log = <<>> THEN <<>> ELSE <<Head(log).status>> \o StatusesOf(Tail(log))

\* C30: limiter state is independent per client and per limiter object: the
\* answers to one client's requests to one route group are those it would get
\* if no other client and no other route group were ever called.
C30_LimiterIndependence ==
    \A g \in RouteGroups, c \in Clients :
        StatusesOf(GroupCallsOf(g, c)) =
            Alone(GroupCallsOf(g, c), <<>>, GroupLimiter(g).times, GroupLimiter(g).seconds)
C30_Witness ==
    /\ Len(rl_log) = 4
    /\ rl_log[1].endpoint = "upload" /\ rl_log[1].status = 200
    /\ rl_log[2].endpoint = "upload" /\ rl_log[2].status = 429
    /\ rl_log[2].client = rl_log[1].client
    /\ rl_log[3].endpoint = "upload" /\ rl_log[3].status = 200
    /\ rl_log[3].client # rl_log[1].client
    /\ rl_log[4].endpoint = "delete" /\ rl_log[4].status = 200
    /\ rl_log[4].client = rl_log[1].client
    /\ rl_log[4].t = rl_log[1].t

\* the access statistics of the records
AccessStats(rows) == {<<r.rid, r.access_count, r.last_accessed>> : r \in rows}

\* the record lookup of a request that will not serve the file: a delete or
\* compress request, or a view or download of a record that has expired or
\* whose bytes are gone
LookupOnly(h) ==
    \/ h.kind \in {"delete", "compress"} /\ h.pc = "check"
    \/ /\ h.kind = "serve" /\ h.file_data # NULL
       /\ \/ Expired(h.file_data[1], now)
          \/ ~Exists(h.file_data[1].storage_path)

\* C31: access statistics change only on successful reads: the lookup of a
\* view or download that ends in 410 or 404, and the lookups of the delete and
\* compress routes, leave access_count and last_accessed of every record as
\* they were.
C31_StatsOnlyOnSuccess ==
    [][\A h \in handlers' \ handlers :
          LookupOnly(h) => AccessStats(files') = AccessStats(files)]_vars

\* C32: an upload that does not succeed leaves no bytes at its storage path
\* and no record: whenever no upload is in progress, every file of the
\* storage directory is the storage_path of a record, and every answer other
\* than success leaves neither the file nor a record of that upload.
C32_FailedUploadLeavesNothing ==
    /\ (\A h \in handlers : h.kind # "upload") =>
          \A f \in disk : \E r \in files : r.storage_path = f.path
    /\ (event.kind = "upload" /\ event.status # 200) =>
          /\ ~Exists(event.storage_path)
          /\ \A r \in files : r.rid # event.rid

\* the uploads in progress
Uploading == {h \in handlers : h.kind = "upload"}

\* C33: in every interleaving of concurrent uploads no two uploads write to
\* the same storage path, no upload writes at the storage path of a record
\* of another upload, the bytes at a record's storage_path are those its own
\* upload wrote, and no two records share a storage_path; the path is chosen,
\* with a numeric suffix when the preferred one exists, and the file created
\* in one step.
C33_DistinctStoragePaths ==
    /\ \A h, g \in Uploading : h.storage_path = g.storage_path => h.rid = g.rid
    /\ \A h \in Uploading : \A r \in files :
          r.storage_path = h.storage_path => r.rid = h.rid
    /\ \A r, q \in files : r.storage_path = q.storage_path => r.rid = q.rid
    /\ \A f, e \in disk : f.path = e.path => f = e
    /\ \A f \in disk : \A r \in files : f.path = r.storage_path => f.owner = r.rid
    /\ \A h \in Uploading : \A f \in disk : f.path = h.storage_path => f.owner = h.rid
C33_Witness ==
    \E h, g \in Uploading :
        /\ h.pc = "read" /\ g.pc = "read" /\ h.chunks > 0 /\ g.chunks > 0
        /\ h.safe_filename = g.safe_filename
        /\ h.storage_path.suffix = 0 /\ g.storage_path.suffix = 1
        /\ \E r \in files : r.storage_path.uuid = h.storage_path.uuid
                            /\ r.storage_path.suffix = 2
============================================================================
